---------------------------- MODULE Spec2Model ----------------------------
(***************************************************************************)
(* FeishuKS: the scheduled wiki -> object storage sync job                 *)
(* (src/src/feishu-to-oss/index.py) and the storage-event -> document      *)
(* index job (src/src/oss-to-kb/adb_py_index.py).                          *)
(*                                                                         *)
(* Strings the code inspects character by character (titles, object keys,  *)
(* event names) are sequences of one-character strings.                    *)
(***************************************************************************)
EXTENDS Integers, Sequences, FiniteSets, TLC

VARIABLES
  job,            \* which program this behaviour runs: "sync", "need", ...
  \* ---- the world of the sync job
  upstream,       \* the wiki space: obj_token -> descriptor or Absent
  storage,        \* the object keys of the bucket that hold a document
  persisted,      \* the ledger object <prefix>sync_records.json in the bucket
  config_ok,      \* every required environment variable is set
  \* ---- one invocation of the sync handler
  pc,             \* position of the handler
  sync_records,   \* FeishuWikiSyncer.sync_records, the in-memory ledger
  nodes,          \* obj_tokens of the nodes get_wiki_nodes returned
  queue,          \* nodes_to_sync not yet taken by a worker of the pool
  current_doc_tokens,
  running,        \* the pool: obj_token in progress -> position of its worker
  counts,         \* [successful, failed, skipped, deleted]
  response,       \* what handler returned: [statusCode, code] or NoResponse
  escaped,        \* an exception reached handler's except clause
  oplog,          \* per obj_token, the calls this run issued for it, in order
  trace,          \* the run-level steps of this invocation, in order
  runs,           \* invocations started so far
  changes,        \* upstream changes made so far
  last,           \* summary of the previous invocation, or NoRun
  faults,         \* failures of the collaborators (wiki API, bucket) so far
  \* ---- need_update called on its own
  need_node,      \* the descriptor passed
  need_result,    \* what the call returned, or NotCalled
  need_before,    \* the ledger as it was when the call was made
  \* ---- _retry_with_backoff called on its own
  max_retries,    \* MAX_RETRIES of the environment
  retry_at,       \* "call", "sleep", "returned" or "raised"
  attempt,        \* the loop variable
  outcomes,       \* what each call of func did, in order
  sleeps,         \* the delays slept, in order
  retry_result,   \* the value returned or the exception raised, or NotCalled
  \* ---- the world of the storage-event handler
  event,          \* the notification handler is invoked with
  prefix_filter,  \* OSS_PREFIX_FILTER
  adb_config_ok,  \* every variable AnalyticDBClient requires is set
  index,          \* the document index: file_name -> full_path of its source
  \* ---- one invocation of the storage-event handler
  epc,            \* position of the handler
  file_info,      \* what _extract_file_info_from_event returned, or NotCalled
  branch,         \* the branch handler dispatched to, or "none"
  should_process, \* what _should_process_file returned, or NotCalled
  delete_success, \* process_update_event: what delete_document returned
  content_size,   \* len(file_content) of the download
  result,         \* what the process_*_event call returned, or NotCalled
  eops,           \* the calls to the bucket and the index, in order
  \* ---- generate_oss_path called on its own
  path_call,      \* [node, space, result]: the arguments and what was returned
  \* ---- get_wiki_nodes on a space of its own, and the pool fed with its output
  wiki,           \* the space: [has_child, obj_token], over the nodes of WikiTree
  wat,            \* "walk", "raised", "classify", "pool" or "done"
  wstack,         \* the calls of get_wiki_nodes in progress, innermost last
  wrequests,      \* the listing requests issued, in order, with their outcome
  wreturn,        \* what the outermost call returned or raised, or NotCalled
  wfailed,        \* the parents whose listing broke off or raised
  wfaults,        \* listing requests that failed so far
  wqueue,         \* nodes_to_sync not yet taken by a worker, as node tokens
  wrunning,       \* the node tokens whose sync_single_document is in progress
  wledger,        \* sync_records of this run: obj_token -> node that wrote it
  wwrites         \* the ledger writes, in order: [key, by]

syncOnly == <<upstream, storage, persisted, config_ok, pc, sync_records, nodes,
              queue, current_doc_tokens, running, counts, oplog, trace, runs,
              changes, last, faults>>
syncVars == <<syncOnly, response, escaped>>
eventVars == <<event, prefix_filter, adb_config_ok, index, epc, file_info, branch,
               should_process, delete_success, content_size, result, eops>>
needVars == <<need_node, need_result, need_before>>
retryVars == <<max_retries, retry_at, attempt, outcomes, sleeps, retry_result>>
pathVars == <<path_call>>
walkVars == <<wiki, wat, wstack, wrequests, wreturn, wfailed, wfaults, wqueue,
              wrunning, wledger, wwrites>>
vars == <<job, syncVars, needVars, retryVars, eventVars, pathVars, walkVars>>
notSync == <<job, needVars, retryVars, eventVars, pathVars, walkVars>>
notNeed == <<job, retryVars, eventVars, pathVars, walkVars>>
notRetry == <<job, syncVars, needVars, eventVars, pathVars, walkVars>>
notEvent == <<job, syncOnly, needVars, retryVars, pathVars, walkVars>>
notPath == <<job, syncVars, needVars, retryVars, eventVars, walkVars>>
notWalk == <<job, syncVars, needVars, retryVars, eventVars, pathVars>>

-----------------------------------------------------------------------------
(* Bounds of the model *)

\* invocations of the sync handler in one behaviour
MaxRuns == 2
\* changes made to the wiki space between invocations
MaxChanges == 1
\* failures of the wiki API and of the bucket in one behaviour
MaxFaults == 1
\* the largest MAX_RETRIES tried
MaxRetriesTried == 3
\* the longest title generate_oss_path is called with on its own
MaxTitleLen == 2
\* listing requests that fail in one walk
MaxWalkFaults == 2
\* MAX_RETRIES of the walk
MaxWalkRetries == 1

-----------------------------------------------------------------------------
(* Strings *)

StartsWith(s, p) == Len(s) >= Len(p) /\ SubSeq(s, 1, Len(p)) = p
EndsWith(s, p) == Len(s) >= Len(p) /\ SubSeq(s, Len(s) - Len(p) + 1, Len(s)) = p
Contains(s, p) == \E i \in 1..(Len(s) - Len(p) + 1) : SubSeq(s, i, i + Len(p) - 1) = p

\* str.strip(): the whitespace characters of the model's alphabet
IsSpace(c) == c \in {" ", "\t"}
RECURSIVE LStrip(_)
LStrip(s) == IF s # <<>> /\ IsSpace(Head(s)) THEN LStrip(Tail(s)) ELSE s
RECURSIVE RStrip(_)
RStrip(s) == IF s # <<>> /\ IsSpace(s[Len(s)]) THEN RStrip(SubSeq(s, 1, Len(s) - 1)) ELSE s
Strip(s) == RStrip(LStrip(s))

-----------------------------------------------------------------------------
(* Paths of the sync job *)

\* invalid_chars of _sanitize_filename
InvalidChars == {"<", ">", ":", "\"", "/", "\\", "|", "?", "*"}

\* the loop of _sanitize_filename: filename.replace(char, '_') for every invalid char
RECURSIVE ReplaceInvalid(_)
ReplaceInvalid(s) ==
  IF s = <<>> THEN <<>>
  ELSE <<IF Head(s) \in InvalidChars THEN "_" ELSE Head(s)>> \o ReplaceInvalid(Tail(s))

\* a _sanitize_filename that does not strip
sanitize_filename_unstripped(filename) == ReplaceInvalid(filename)

\* FeishuWikiSyncer._sanitize_filename
sanitize_filename(filename) == Strip(ReplaceInvalid(filename))

\* OSS_PREFIX (its default) and WIKI_SPACE_NAME of the deployment
oss_prefix == <<"w", "i", "k", "i", "/">>
space_name == <<"E", "n", "g">>

\* FeishuWikiSyncer.generate_oss_path; root_dir = space_name or node.space_id
generate_oss_path(node, space) ==
  LET root_dir == IF space # <<>> THEN space ELSE node.space_id
      safe_root_dir == sanitize_filename(root_dir)
      safe_title == sanitize_filename(node.title)
  IN  oss_prefix \o safe_root_dir \o <<"/">> \o safe_title \o <<".", "m", "d">>

\* the path of a document of the synced space, by its title
OssPath(title) == generate_oss_path([title |-> title, space_id |-> <<"s", "1">>],
                                    space_name)

-----------------------------------------------------------------------------
(* The wiki space *)

Tokens == {"t1", "t2", "t3"}
\* obj_type of a node; t3 is a spreadsheet node
ObjType(t) == IF t = "t3" THEN "sheet" ELSE "docx"
\* the order in which get_wiki_nodes lists the nodes
TokenOrder == <<"t1", "t2", "t3">>

\* "b?" and "b*" are two titles of one storage path
Titles == { <<"a">>, <<"b", "?">>, <<"b", "*">> }
EditTimes == {"1", "2"}
Absent == [absent |-> TRUE]
Descriptors == [title : Titles, obj_edit_time : EditTimes]
\* the states of a node of the space: t1 takes every title, t2 two of them, and
\* the spreadsheet node is always there and never changes
UpstreamOf(t) ==
  CASE t = "t1" -> Descriptors \cup {Absent}
    [] t = "t2" -> {d \in Descriptors : d.title # <<"b", "*">>} \cup {Absent}
    [] OTHER -> {[title |-> <<"a">>, obj_edit_time |-> "1"]}

Present(up) == {t \in Tokens : up[t] # Absent}

\* WikiNode built by get_wiki_nodes for obj_token t
WikiNode(t, d) == [obj_token |-> t, obj_type |-> ObjType(t), title |-> d.title,
                   obj_edit_time |-> d.obj_edit_time]

\* a SyncRecord that keeps no edit time
SyncRecordNoEditTime(node, oss_path) ==
  [obj_token |-> node.obj_token, title |-> node.title, oss_path |-> oss_path,
   obj_edit_time |-> "", obj_type |-> node.obj_type]

\* SyncRecord; content_hash and last_sync (a digest and a clock reading) are left out
SyncRecord(node, oss_path) ==
  [obj_token |-> node.obj_token, title |-> node.title, oss_path |-> oss_path,
   obj_edit_time |-> node.obj_edit_time, obj_type |-> node.obj_type]

EmptyLedger == [t \in {} |-> Absent]

\* s as a sequence in TokenOrder
OrderedSeq(s) == LET F[i \in 0..Len(TokenOrder)] ==
                       IF i = 0 THEN <<>>
                       ELSE IF TokenOrder[i] \in s THEN F[i - 1] \o <<TokenOrder[i]>>
                            ELSE F[i - 1]
                 IN  F[Len(TokenOrder)]

-----------------------------------------------------------------------------
(* Change Classifier *)

\* need_update without its title check
need_update_same_title(node, records) ==
  IF node.obj_token \notin DOMAIN records THEN TRUE
  ELSE records[node.obj_token].obj_edit_time # node.obj_edit_time

\* need_update that finds every document changed
need_update_always(node, records) == TRUE

\* FeishuWikiSyncer.need_update
need_update(node, records) ==
  IF node.obj_token \notin DOMAIN records THEN TRUE
  ELSE LET record == records[node.obj_token]
       IN  IF record.title # node.title THEN TRUE
           ELSE IF record.obj_edit_time # node.obj_edit_time THEN TRUE
           ELSE FALSE


-----------------------------------------------------------------------------
(* The sync handler: feishu-to-oss/index.py *)

\* max_workers of sync_documents_parallel
max_workers == 2

NoResponse == [none |-> TRUE]
NoRun == [none |-> TRUE]
NoCounts == [successful |-> 0, failed |-> 0, skipped |-> 0, deleted |-> 0]
NoOps == [t \in Tokens |-> <<>>]

Log(log, t, op) == [log EXCEPT ![t] = Append(@, op)]

\* the node of obj_token t in this run's walk
NodeOf(t) == WikiNode(t, upstream[t])

\* doc_nodes of sync_documents_parallel
DocNodes(ns) == {t \in ns : ObjType(t) = "docx"}

Restrict(f, S) == [x \in S |-> f[x]]

\* the outcomes a call of a collaborator can still have: it succeeds (TRUE), or
\* fails while failures are left in the bound
Outcomes == IF faults < MaxFaults THEN BOOLEAN ELSE {TRUE}
Fault(ok) == faults' = IF ok THEN faults ELSE faults + 1

\* handler returns; the run's own state is kept until the invocation ends
Return(status, body) ==
  /\ response' = [statusCode |-> status, body |-> body]
  /\ pc' = "returned"

InitSync ==
  /\ upstream \in {up \in [Tokens -> Descriptors \cup {Absent}] :
                     \A t \in Tokens : up[t] \in UpstreamOf(t)}
  /\ storage = {}
  /\ persisted = EmptyLedger
  /\ config_ok \in BOOLEAN
  /\ pc = "idle"
  /\ sync_records = EmptyLedger
  /\ nodes = {}
  /\ queue = <<>>
  /\ current_doc_tokens = {}
  /\ running = EmptyLedger
  /\ counts = NoCounts
  /\ response = NoResponse
  /\ escaped = FALSE
  /\ oplog = NoOps
  /\ trace = <<>>
  /\ runs = 0
  /\ changes = 0
  /\ last = NoRun
  /\ faults = 0

\* StartRun without _validate_config: the run goes on whatever is configured
StartRunUnvalidated ==
  /\ job = "sync" /\ pc = "idle" /\ runs < MaxRuns
  /\ runs' = runs + 1
  /\ \E load_ok \in Outcomes :
       /\ sync_records' = IF load_ok THEN persisted ELSE EmptyLedger
       /\ trace' = <<[step |-> "load", ok |-> load_ok]>>
       /\ Fault(load_ok)
  /\ pc' = "permissions"
  /\ UNCHANGED <<response, escaped>>
  /\ UNCHANGED <<upstream, storage, persisted, config_ok, nodes, queue,
                 current_doc_tokens, running, counts, oplog, changes, last>>
  /\ UNCHANGED notSync

\* handler entry and FeishuWikiSyncer.__init__: the ledger is loaded (a failed
\* load is logged and leaves it empty), then the configuration is validated
StartRun ==
  /\ job = "sync" /\ pc = "idle" /\ runs < MaxRuns
  /\ runs' = runs + 1
  /\ \E load_ok \in Outcomes :
       /\ sync_records' = IF load_ok THEN persisted ELSE EmptyLedger
       /\ trace' = <<[step |-> "load", ok |-> load_ok]>>
       /\ Fault(load_ok)
  /\ IF config_ok
       THEN /\ pc' = "permissions"
            /\ UNCHANGED <<response, escaped>>
       ELSE /\ escaped' = TRUE
            /\ Return(500, [code |-> -1])
  /\ UNCHANGED <<upstream, storage, persisted, config_ok, nodes, queue,
                 current_doc_tokens, running, counts, oplog, changes, last>>
  /\ UNCHANGED notSync

\* sync_wiki_space: test_api_permissions
TestApiPermissions ==
  /\ job = "sync" /\ pc = "permissions"
  /\ \E ok \in Outcomes :
       /\ Fault(ok)
       /\ IF ok THEN pc' = "find_space" /\ UNCHANGED response
          ELSE Return(200, [code |-> -1])
  /\ UNCHANGED <<upstream, storage, persisted, config_ok, sync_records, nodes, queue,
                 current_doc_tokens, running, counts, escaped, oplog, trace, runs,
                 changes, last>>
  /\ UNCHANGED notSync

\* sync_wiki_space: find_space_id; an exception is caught by sync_wiki_space
FindSpaceId ==
  /\ job = "sync" /\ pc = "find_space"
  /\ \E ok \in Outcomes :
       /\ Fault(ok)
       /\ IF ok THEN pc' = "walk" /\ UNCHANGED response
          ELSE Return(200, [code |-> -1])
  /\ UNCHANGED <<upstream, storage, persisted, config_ok, sync_records, nodes, queue,
                 current_doc_tokens, running, counts, escaped, oplog, trace, runs,
                 changes, last>>
  /\ UNCHANGED notSync

\* what get_wiki_nodes can return: the whole space, or, when a listing request
\* fails (the page loop of that parent ends there), any part of it
WalkResults(ok) == IF ok THEN {Present(upstream)}
                   ELSE SUBSET Present(upstream) \ {Present(upstream)}

\* a sync_wiki_space that goes on to the pool whatever the walk returned
GetWikiNodesUnchecked ==
  /\ job = "sync" /\ pc = "walk"
  /\ \E ok \in Outcomes :
       /\ Fault(ok)
       /\ \/ /\ ~ok
             /\ Return(200, [code |-> -1])
             /\ UNCHANGED nodes
          \/ \E ns \in WalkResults(ok) :
               /\ nodes' = ns
               /\ pc' = "classify" /\ UNCHANGED response
  /\ UNCHANGED <<upstream, storage, persisted, config_ok, sync_records, queue,
                 current_doc_tokens, running, counts, escaped, oplog, trace, runs,
                 changes, last>>
  /\ UNCHANGED notSync

\* sync_wiki_space: get_wiki_nodes, and the return of code 1 for an empty walk.
\* A rate limit that outlasts the retries raises, which sync_wiki_space catches
GetWikiNodes ==
  /\ job = "sync" /\ pc = "walk"
  /\ \E ok \in Outcomes :
       /\ Fault(ok)
       /\ \/ /\ ~ok
             /\ Return(200, [code |-> -1])
             /\ UNCHANGED nodes
          \/ \E ns \in WalkResults(ok) :
               /\ nodes' = ns
               /\ IF ns = {} THEN Return(200, [code |-> 1])
                  ELSE pc' = "classify" /\ UNCHANGED response
  /\ UNCHANGED <<upstream, storage, persisted, config_ok, sync_records, queue,
                 current_doc_tokens, running, counts, escaped, oplog, trace, runs,
                 changes, last>>
  /\ UNCHANGED notSync

\* sync_documents_parallel up to the pool: doc_nodes, nodes_to_sync, skipped_count
\* and current_doc_tokens
Classify ==
  /\ job = "sync" /\ pc = "classify"
  /\ LET doc_nodes == DocNodes(nodes)
         nodes_to_sync == {t \in doc_nodes : need_update(NodeOf(t), sync_records)}
     IN  /\ queue' = OrderedSeq(nodes_to_sync)
         /\ counts' = [counts EXCEPT !.skipped = Cardinality(doc_nodes \ nodes_to_sync)]
         /\ current_doc_tokens' = doc_nodes
         /\ oplog' = [t \in Tokens |->
                        IF t \in doc_nodes
                          THEN Append(oplog[t], [op |-> "need_update", at |-> "classify",
                                                 result |-> t \in nodes_to_sync])
                          ELSE oplog[t]]
         /\ trace' = Append(trace, [step |-> "classify", ok |-> TRUE])
         /\ pc' = IF nodes_to_sync = {} THEN "reconcile" ELSE "pool"
  /\ UNCHANGED <<upstream, storage, persisted, config_ok, sync_records, nodes,
                 running, response, escaped, runs, changes, last, faults>>
  /\ UNCHANGED notSync

\* a pool that does not count a document that failed
FinishUncounted(t, success) ==
  /\ running' = Restrict(running, DOMAIN running \ {t})
  /\ counts' = IF success THEN [counts EXCEPT !.successful = @ + 1] ELSE counts

\* what a call of sync_single_document leaves behind when it returns
Finish(t, success) ==
  /\ running' = Restrict(running, DOMAIN running \ {t})
  /\ counts' = IF success THEN [counts EXCEPT !.successful = @ + 1]
               ELSE [counts EXCEPT !.failed = @ + 1]

\* a worker of the ThreadPoolExecutor takes the next submitted document and
\* runs sync_single_document step 1: need_update; an unchanged document
\* returns True
StartDocument ==
  /\ job = "sync" /\ pc = "pool"
  /\ queue # <<>>
  /\ Cardinality(DOMAIN running) < max_workers
  /\ LET t == Head(queue)
         need == need_update(NodeOf(t), sync_records)
     IN  /\ oplog' = Log(oplog, t, [op |-> "need_update", at |-> "worker", result |-> need])
         /\ IF need THEN /\ running' = (t :> "fetch") @@ running
                         /\ UNCHANGED counts
            ELSE /\ UNCHANGED running
                 /\ counts' = [counts EXCEPT !.successful = @ + 1]
  /\ queue' = Tail(queue)
  /\ UNCHANGED <<upstream, storage, persisted, config_ok, pc, sync_records, nodes,
                 current_doc_tokens, response, escaped, trace, runs, changes, last,
                 faults>>
  /\ UNCHANGED notSync

\* a sync_single_document that never sees a title change
IsTitleChangeNever(t) == FALSE

\* sync_single_document step 3: old_record and old_record.title != node.title
IsTitleChange(t) == t \in DOMAIN sync_records /\ sync_records[t].title # NodeOf(t).title

\* a sync_single_document that takes empty content for content
FetchContentEmptyOk(t) ==
  /\ job = "sync" /\ pc = "pool"
  /\ t \in DOMAIN running /\ running[t] = "fetch"
  /\ \E ok \in Outcomes : \E outcome \in (IF ok THEN {"content"} ELSE {"empty", "error"}) :
       /\ Fault(ok)
       /\ oplog' = Log(oplog, t, [op |-> "fetch", outcome |-> outcome])
       /\ IF outcome \in {"content", "empty"}
            THEN /\ running' = [running EXCEPT ![t] =
                                   IF IsTitleChange(t) THEN "title_change" ELSE "upload"]
                 /\ UNCHANGED counts
            ELSE Finish(t, FALSE)
  /\ UNCHANGED <<upstream, storage, persisted, config_ok, pc, sync_records, nodes,
                 queue, current_doc_tokens, response, escaped, trace, runs,
                 changes, last>>
  /\ UNCHANGED notSync

\* sync_single_document step 2: get_document_content returns the content, or
\* None for empty content and for a request that failed after its retries
FetchContent(t) ==
  /\ job = "sync" /\ pc = "pool"
  /\ t \in DOMAIN running /\ running[t] = "fetch"
  /\ \E ok \in Outcomes : \E outcome \in (IF ok THEN {"content"} ELSE {"empty", "error"}) :
       /\ Fault(ok)
       /\ oplog' = Log(oplog, t, [op |-> "fetch", outcome |-> outcome])
       /\ IF outcome = "content"
            THEN /\ running' = [running EXCEPT ![t] =
                                   IF IsTitleChange(t) THEN "title_change" ELSE "upload"]
                 /\ UNCHANGED counts
            ELSE Finish(t, FALSE)
  /\ UNCHANGED <<upstream, storage, persisted, config_ok, pc, sync_records, nodes,
                 queue, current_doc_tokens, response, escaped, trace, runs,
                 changes, last>>
  /\ UNCHANGED notSync

\* delete_from_oss: one delete_object call (an error of the storage client is
\* no RetryableError, so _retry_with_backoff raises it at once); False on error
delete_from_oss(store, oss_path, ok) == IF ok THEN store \ {oss_path} ELSE store

\* a handle_title_change whose failed delete ends the sync of the document
TitleChangeOrFail(t) ==
  /\ job = "sync" /\ pc = "pool"
  /\ t \in DOMAIN running /\ running[t] = "title_change"
  /\ \E ok \in Outcomes :
       /\ Fault(ok)
       /\ storage' = delete_from_oss(storage, sync_records[t].oss_path, ok)
       /\ oplog' = Log(oplog, t, [op |-> "delete", why |-> "rename",
                                 path |-> sync_records[t].oss_path, ok |-> ok])
       /\ IF ok THEN running' = [running EXCEPT ![t] = "upload"] /\ UNCHANGED counts
          ELSE Finish(t, FALSE)
  /\ UNCHANGED <<upstream, persisted, config_ok, pc, sync_records, nodes, queue,
                 current_doc_tokens, response, escaped, trace, runs,
                 changes, last>>
  /\ UNCHANGED notSync

\* sync_single_document step 3: handle_title_change, when the recorded title
\* differs; the outcome of the delete is only logged
TitleChange(t) ==
  /\ job = "sync" /\ pc = "pool"
  /\ t \in DOMAIN running /\ running[t] = "title_change"
  /\ \E ok \in Outcomes :
       /\ Fault(ok)
       /\ storage' = delete_from_oss(storage, sync_records[t].oss_path, ok)
       /\ oplog' = Log(oplog, t, [op |-> "delete", why |-> "rename",
                                 path |-> sync_records[t].oss_path, ok |-> ok])
  /\ running' = [running EXCEPT ![t] = "upload"]
  /\ UNCHANGED <<upstream, persisted, config_ok, pc, sync_records, nodes, queue,
                 current_doc_tokens, counts, response, escaped, trace, runs,
                 changes, last>>
  /\ UNCHANGED notSync

\* a sync_single_document that writes the ledger entry before it uploads
UploadDocumentRecordFirst(t) ==
  /\ job = "sync" /\ pc = "pool"
  /\ t \in DOMAIN running /\ running[t] = "upload"
  /\ sync_records' = (t :> [obj_token |-> t, title |-> NodeOf(t).title,
                            oss_path |-> OssPath(NodeOf(t).title),
                            obj_edit_time |-> NodeOf(t).obj_edit_time,
                            obj_type |-> NodeOf(t).obj_type]) @@ sync_records
  /\ LET oss_path == OssPath(NodeOf(t).title)
     IN  \E ok \in Outcomes :
           /\ Fault(ok)
           /\ oplog' = Log(oplog, t, [op |-> "put", path |-> oss_path, ok |-> ok])
           /\ IF ok THEN /\ storage' = storage \cup {oss_path}
                         /\ running' = [running EXCEPT ![t] = "record"]
                         /\ UNCHANGED counts
              ELSE /\ Finish(t, FALSE)
                   /\ UNCHANGED storage
  /\ UNCHANGED <<upstream, persisted, config_ok, pc, nodes, queue,
                 current_doc_tokens, response, escaped, trace, runs, changes, last>>
  /\ UNCHANGED notSync

\* sync_single_document steps 4 to 7: the paths, save_to_local, _retry_upload_file
UploadDocument(t) ==
  /\ job = "sync" /\ pc = "pool"
  /\ t \in DOMAIN running /\ running[t] = "upload"
  /\ LET oss_path == OssPath(NodeOf(t).title)
     IN  \E ok \in Outcomes :
           /\ Fault(ok)
           /\ \/ \* save_to_local failed, or a step raised: return False
                 /\ ~ok
                 /\ Finish(t, FALSE)
                 /\ UNCHANGED <<storage, oplog>>
              \/ /\ oplog' = Log(oplog, t, [op |-> "put", path |-> oss_path, ok |-> ok])
                 /\ IF ok THEN /\ storage' = storage \cup {oss_path}
                               /\ running' = [running EXCEPT ![t] = "record"]
                               /\ UNCHANGED counts
                    ELSE /\ Finish(t, FALSE)
                         /\ UNCHANGED storage
  /\ UNCHANGED <<upstream, persisted, config_ok, pc, sync_records, nodes, queue,
                 current_doc_tokens, response, escaped, trace, runs, changes, last>>
  /\ UNCHANGED notSync

\* a sync_single_document that persists the ledger with every entry it writes
UpdateRecordAndSave(t) ==
  /\ job = "sync" /\ pc = "pool"
  /\ t \in DOMAIN running /\ running[t] = "record"
  /\ sync_records' = (t :> SyncRecord(NodeOf(t), OssPath(NodeOf(t).title))) @@ sync_records
  /\ persisted' = sync_records'
  /\ oplog' = Log(oplog, t, [op |-> "record"])
  /\ Finish(t, TRUE)
  /\ UNCHANGED <<upstream, storage, config_ok, pc, nodes, queue,
                 current_doc_tokens, response, escaped, trace, runs, changes, last,
                 faults>>
  /\ UNCHANGED notSync

\* sync_single_document step 8: the ledger entry is written, and True returned
UpdateRecord(t) ==
  /\ job = "sync" /\ pc = "pool"
  /\ t \in DOMAIN running /\ running[t] = "record"
  /\ sync_records' = (t :> SyncRecord(NodeOf(t), OssPath(NodeOf(t).title))) @@ sync_records
  /\ oplog' = Log(oplog, t, [op |-> "record"])
  /\ Finish(t, TRUE)
  /\ UNCHANGED <<upstream, storage, persisted, config_ok, pc, nodes, queue,
                 current_doc_tokens, response, escaped, trace, runs, changes, last,
                 faults>>
  /\ UNCHANGED notSync

\* a pool that is left as soon as every document was handed to a worker
PoolDrainedEarly ==
  /\ job = "sync" /\ pc = "pool"
  /\ queue = <<>>
  /\ pc' = "reconcile"
  /\ trace' = Append(trace, [step |-> "pool_drained", ok |-> TRUE])
  /\ UNCHANGED <<upstream, storage, persisted, config_ok, sync_records, nodes, queue,
                 current_doc_tokens, running, counts, response, escaped, oplog, runs,
                 changes, last, faults>>
  /\ UNCHANGED notSync

\* the with-block of the ThreadPoolExecutor ends when every future is done
PoolDrained ==
  /\ job = "sync" /\ pc = "pool"
  /\ queue = <<>> /\ DOMAIN running = {}
  /\ pc' = "reconcile"
  /\ trace' = Append(trace, [step |-> "pool_drained", ok |-> TRUE])
  /\ UNCHANGED <<upstream, storage, persisted, config_ok, sync_records, nodes, queue,
                 current_doc_tokens, running, counts, response, escaped, oplog, runs,
                 changes, last, faults>>
  /\ UNCHANGED notSync

\* a reconciler that takes every ledger key for a deleted document
StaleKeysAll(records, current_docs) == DOMAIN records

\* the ledger keys handle_deleted_documents treats as deleted upstream
StaleKeys(records, current_docs) == {t \in DOMAIN records : t \notin current_docs}

\* docs_to_remove of handle_deleted_documents: the keys whose delete_from_oss
\* returned True
docs_to_remove(stale, deleted_ok) == {t \in stale : t \in deleted_ok}

\* the sets of stale keys whose storage delete can succeed
DeleteOutcomes(stale) ==
  {ok \in SUBSET stale : Cardinality(stale \ ok) <= MaxFaults - faults}

\* FeishuWikiSyncer.handle_deleted_documents, called by sync_documents_parallel
\* after the pool; deleted_ok are the keys whose storage delete succeeds
HandleDeletedDocuments ==
  /\ job = "sync" /\ pc = "reconcile"
  /\ LET stale == StaleKeys(sync_records, current_doc_tokens)
     IN  \E deleted_ok \in DeleteOutcomes(stale) :
           LET removed == docs_to_remove(stale, deleted_ok)
           IN  /\ faults' = faults + Cardinality(stale \ deleted_ok)
               /\ storage' = storage \ {sync_records[t].oss_path : t \in deleted_ok}
               /\ sync_records' = Restrict(sync_records, DOMAIN sync_records \ removed)
               /\ counts' = [counts EXCEPT !.deleted = Cardinality(removed)]
               /\ oplog' = [t \in Tokens |->
                              IF t \in stale
                                THEN Append(oplog[t],
                                            [op |-> "delete", why |-> "reconcile",
                                             path |-> sync_records[t].oss_path,
                                             ok |-> t \in deleted_ok])
                                ELSE oplog[t]]
  /\ trace' = Append(trace, [step |-> "reconcile", ok |-> TRUE])
  /\ pc' = "save"
  /\ UNCHANGED <<upstream, persisted, config_ok, nodes, queue, current_doc_tokens,
                 running, response, escaped, runs, changes, last>>
  /\ UNCHANGED notSync

\* a report that takes every document for a saved call
SyncReportSavedAll(sync_result, records, ns) ==
  [code |-> 0, total_nodes |-> Cardinality(ns), doc_nodes |-> Cardinality(DocNodes(ns)),
   successful |-> sync_result.successful, failed |-> sync_result.failed,
   skipped |-> sync_result.skipped, deleted |-> sync_result.deleted,
   sync_records_count |-> Cardinality(DOMAIN records),
   api_calls_saved |-> Cardinality(DocNodes(ns))]

\* the report of sync_wiki_space
SyncReport(sync_result, records, ns) ==
  [code |-> 0, total_nodes |-> Cardinality(ns), doc_nodes |-> Cardinality(DocNodes(ns)),
   successful |-> sync_result.successful, failed |-> sync_result.failed,
   skipped |-> sync_result.skipped, deleted |-> sync_result.deleted,
   sync_records_count |-> Cardinality(DOMAIN records),
   api_calls_saved |-> sync_result.skipped]

\* sync_wiki_space steps 4 and 5: _save_sync_records (a failure is logged and
\* swallowed), the report, and handler's 200 response
SaveAndReport ==
  /\ job = "sync" /\ pc = "save"
  /\ \E ok \in Outcomes :
       /\ Fault(ok)
       /\ persisted' = IF ok THEN sync_records ELSE persisted
       /\ trace' = Append(trace, [step |-> "save", ok |-> ok])
  /\ Return(200, SyncReport(counts, sync_records, nodes))
  /\ UNCHANGED <<upstream, storage, config_ok, sync_records, nodes, queue,
                 current_doc_tokens, running, counts, escaped, oplog, runs,
                 changes, last>>
  /\ UNCHANGED notSync

\* the trace holds this step with this outcome
Did(step, ok) == \E i \in 1..Len(trace) : trace[i] = [step |-> step, ok |-> ok]

\* what is remembered of an invocation once its process is gone
Summary == [code |-> response.body.code,
            complete |-> response.body.code = 0 /\ counts.failed = 0 /\ Did("save", TRUE),
            nodes |-> nodes, changed |-> FALSE]

\* the invocation is over: nothing of the process survives it
EndInvocation ==
  /\ job = "sync" /\ pc = "returned"
  /\ last' = Summary
  /\ pc' = "idle"
  /\ sync_records' = EmptyLedger
  /\ nodes' = {}
  /\ queue' = <<>>
  /\ current_doc_tokens' = {}
  /\ counts' = NoCounts
  /\ response' = NoResponse
  /\ escaped' = FALSE
  /\ oplog' = NoOps
  /\ trace' = <<>>
  /\ UNCHANGED <<upstream, storage, persisted, config_ok, running, runs, changes,
                 faults>>
  /\ UNCHANGED notSync

\* between two invocations a document is created, edited, renamed or deleted
UpstreamChange ==
  /\ job = "sync" /\ pc = "idle"
  /\ changes < MaxChanges
  /\ \E t \in Tokens : \E d \in UpstreamOf(t) \ {upstream[t]} :
       upstream' = [upstream EXCEPT ![t] = d]
  /\ changes' = changes + 1
  /\ last' = IF last = NoRun THEN last ELSE [last EXCEPT !.changed = TRUE]
  /\ UNCHANGED <<storage, persisted, config_ok, pc, sync_records, nodes, queue,
                 current_doc_tokens, running, counts, response, escaped, oplog,
                 trace, runs, faults>>
  /\ UNCHANGED notSync

NextSync ==
  \/ StartRun \/ TestApiPermissions \/ FindSpaceId \/ GetWikiNodes \/ Classify
  \/ StartDocument
  \/ \E t \in Tokens : FetchContent(t)
  \/ \E t \in Tokens : TitleChange(t)
  \/ \E t \in Tokens : UploadDocument(t)
  \/ \E t \in Tokens : UpdateRecord(t)
  \/ PoolDrained \/ HandleDeletedDocuments \/ SaveAndReport
  \/ EndInvocation \/ UpstreamChange

NotCalled == [none |-> TRUE]

NeedIdle == need_node = NotCalled /\ need_result = NotCalled /\ need_before = NotCalled

RetryIdle ==
  /\ max_retries = 0 /\ retry_at = "idle" /\ attempt = 0
  /\ outcomes = <<>> /\ sleeps = <<>> /\ retry_result = NotCalled

EventIdle ==
  /\ event = NotCalled /\ prefix_filter = <<>> /\ adb_config_ok = TRUE
  /\ index = <<>> /\ epc = "idle" /\ file_info = NotCalled /\ branch = "none"
  /\ should_process = NotCalled /\ delete_success = FALSE /\ content_size = 0
  /\ result = NotCalled /\ eops = <<>>

PathIdle == path_call = NotCalled

WalkIdle ==
  /\ wiki = NotCalled /\ wat = "idle" /\ wstack = <<>> /\ wrequests = <<>>
  /\ wreturn = NotCalled /\ wfailed = {} /\ wfaults = 0 /\ wqueue = <<>>
  /\ wrunning = {} /\ wledger = <<>> /\ wwrites = <<>>

InitSyncJob ==
  job = "sync" /\ InitSync /\ NeedIdle /\ RetryIdle /\ EventIdle /\ PathIdle /\ WalkIdle

SpecSync == InitSyncJob /\ [][NextSync]_vars

-----------------------------------------------------------------------------
(* A run that dies before _save_sync_records, and the run after it *)

\* the ledger a complete run leaves for the space up: one record per docx
\* document, at the path of its title
LedgerOf(up) ==
  [t \in {u \in Tokens : ObjType(u) = "docx" /\ up[u] # Absent} |->
     SyncRecord(WikiNode(t, up[t]), OssPath(up[t].title))]

\* the storage paths at which this run had an upload or a delete succeed
Touched ==
  {oplog[t][i].path : <<t, i>> \in
     {<<u, j>> \in Tokens \X (1..4) :
        j \in 1..Len(oplog[u]) /\ oplog[u][j].op \in {"put", "delete"} /\ oplog[u][j].ok}}

\* what is known of an invocation whose process died
CrashSummary ==
  [crashed |-> TRUE, changed |-> FALSE, touched |-> Touched,
   uploaded |-> {t \in Tokens : \E i \in 1..Len(oplog[t]) :
                   oplog[t][i].op = "put" /\ oplog[t][i].ok},
   reconciled |-> {t \in Tokens : \E i \in 1..Len(oplog[t]) :
                     /\ oplog[t][i].op = "delete" /\ oplog[t][i].ok
                     /\ oplog[t][i].why = "reconcile"},
   ledger |-> persisted]

\* the process dies (timeout, out of memory, kill) in sync_documents_parallel
\* or before _save_sync_records has written the ledger: storage keeps what was
\* uploaded and deleted, the persisted ledger is the one that was loaded, and
\* nothing of the process survives. It happens to the first invocation only
Crash ==
  /\ job = "sync" /\ pc \in {"pool", "reconcile", "save"}
  /\ last = NoRun
  /\ last' = CrashSummary
  /\ pc' = "idle"
  /\ sync_records' = EmptyLedger
  /\ nodes' = {}
  /\ queue' = <<>>
  /\ current_doc_tokens' = {}
  /\ running' = EmptyLedger
  /\ counts' = NoCounts
  /\ response' = NoResponse
  /\ escaped' = FALSE
  /\ oplog' = NoOps
  /\ trace' = <<>>
  /\ UNCHANGED <<upstream, storage, persisted, config_ok, runs, changes, faults>>
  /\ UNCHANGED notSync

\* the job is invoked on what a complete first run of an earlier state of the
\* space left (its ledger persisted, the object of every entry in storage), the
\* space having changed since; no call of a collaborator fails from here on
InitCrashJob ==
  /\ job = "sync"
  /\ upstream \in {up \in [Tokens -> Descriptors \cup {Absent}] :
                     \A t \in Tokens : up[t] \in UpstreamOf(t)}
  /\ \E before \in {up \in [Tokens -> Descriptors \cup {Absent}] :
                      \A t \in Tokens : up[t] \in UpstreamOf(t)} :
       /\ persisted = LedgerOf(before)
       /\ storage = {LedgerOf(before)[t].oss_path : t \in DOMAIN LedgerOf(before)}
  /\ config_ok = TRUE
  /\ pc = "idle"
  /\ sync_records = EmptyLedger
  /\ nodes = {}
  /\ queue = <<>>
  /\ current_doc_tokens = {}
  /\ running = EmptyLedger
  /\ counts = NoCounts
  /\ response = NoResponse
  /\ escaped = FALSE
  /\ oplog = NoOps
  /\ trace = <<>>
  /\ runs = 0
  /\ changes = 0
  /\ last = NoRun
  /\ faults = MaxFaults
  /\ NeedIdle /\ RetryIdle /\ EventIdle /\ PathIdle /\ WalkIdle

NextCrash ==
  \/ StartRun \/ TestApiPermissions \/ FindSpaceId \/ GetWikiNodes \/ Classify
  \/ StartDocument
  \/ \E t \in Tokens : FetchContent(t)
  \/ \E t \in Tokens : TitleChange(t)
  \/ \E t \in Tokens : UploadDocument(t)
  \/ \E t \in Tokens : UpdateRecord(t)
  \/ PoolDrained \/ HandleDeletedDocuments \/ SaveAndReport
  \/ EndInvocation \/ Crash

SpecCrash == InitCrashJob /\ [][NextCrash]_vars

-----------------------------------------------------------------------------
(* need_update on every ledger and every descriptor *)

\* obj_edit_time of a ledger entry: _load_sync_records reads '' for an entry
\* written without the field
LedgerTimes == EditTimes \cup {""}

DocTokens == {t \in Tokens : ObjType(t) = "docx"}

\* the ledgers _load_sync_records can build: each key maps to a record of its own
\* obj_token, at the path of its recorded title
Ledgers ==
  UNION {[S -> [obj_token : S, title : Titles, oss_path : {OssPath(x) : x \in Titles},
                obj_edit_time : LedgerTimes, obj_type : {"docx"}]] : S \in SUBSET DocTokens}
WellFormed(records) ==
  \A t \in DOMAIN records : /\ records[t].obj_token = t
                            /\ records[t].oss_path = OssPath(records[t].title)

InitNeedJob ==
  /\ job = "need"
  /\ sync_records \in {l \in Ledgers : WellFormed(l)}
  /\ need_node \in {WikiNode(t, d) : t \in DocTokens, d \in Descriptors}
  /\ need_result = NotCalled /\ need_before = NotCalled
  /\ upstream = [t \in Tokens |-> Absent] /\ storage = {} /\ persisted = EmptyLedger
  /\ config_ok = TRUE /\ pc = "idle" /\ nodes = {} /\ queue = <<>>
  /\ current_doc_tokens = {} /\ running = EmptyLedger /\ counts = NoCounts
  /\ response = NoResponse /\ escaped = FALSE /\ oplog = NoOps /\ trace = <<>>
  /\ runs = 0 /\ changes = 0 /\ last = NoRun /\ faults = 0
  /\ RetryIdle /\ EventIdle /\ PathIdle /\ WalkIdle

\* a call of FeishuWikiSyncer.need_update: it assigns nothing
CallNeedUpdate ==
  /\ job = "need" /\ need_result = NotCalled
  /\ need_result' = [value |-> need_update(need_node, sync_records)]
  /\ need_before' = sync_records
  /\ UNCHANGED <<need_node, syncVars>>
  /\ UNCHANGED notNeed

SpecNeed == InitNeedJob /\ [][CallNeedUpdate]_vars

-----------------------------------------------------------------------------
(* _retry_with_backoff *)

\* RETRY_DELAY_BASE, in seconds (its default)
retry_delay_base == 1

RECURSIVE Pow2(_)
Pow2(n) == IF n = 0 THEN 1 ELSE 2 * Pow2(n - 1)

\* what one call of func does: it returns, or raises RateLimitError, another
\* RetryableError, or any other exception
CallOutcomes == {"return", "RateLimitError", "RetryableError", "Exception"}

InitRetryJob ==
  /\ job = "retry"
  /\ max_retries \in -1..MaxRetriesTried
  /\ retry_at = "call" /\ attempt = 0
  /\ outcomes = <<>> /\ sleeps = <<>> /\ retry_result = NotCalled
  /\ InitSync /\ config_ok = TRUE /\ \A t \in Tokens : upstream[t] = Absent \/ t = "t3"
  /\ NeedIdle /\ EventIdle /\ PathIdle /\ WalkIdle

\* the delay slept after a failed attempt: jitter only after a rate limit
Delay(kind, n) == [seconds |-> retry_delay_base * Pow2(n),
                   jitter |-> kind = "RateLimitError"]

\* exception handlers that give up one attempt early
ReraiseEarly(kind, n, max) ==
  IF kind \in {"RateLimitError", "RetryableError"} THEN n >= max - 1 ELSE TRUE

\* exception handlers that retry a rate limit only
ReraiseUnlessRateLimit(kind, n, max) ==
  IF kind = "RateLimitError" THEN n = max ELSE TRUE

\* the exception handlers of _retry_with_backoff: TRUE when the exception of
\* this attempt is raised to the caller
Reraise(kind, n, max) ==
  IF kind \in {"RateLimitError", "RetryableError"} THEN n = max ELSE TRUE

\* one pass of the for loop: func is called; a value is returned, an exception
\* is raised to the caller, or the delay is computed and the loop goes to sleep
RetryAttempt ==
  /\ job = "retry" /\ retry_at = "call"
  /\ attempt <= max_retries
  /\ \E kind \in CallOutcomes :
       /\ outcomes' = Append(outcomes, kind)
       /\ IF kind = "return"
            THEN /\ retry_at' = "returned"
                 /\ retry_result' = [value |-> "result", of |-> attempt]
                 /\ UNCHANGED sleeps
            ELSE IF Reraise(kind, attempt, max_retries)
            THEN /\ retry_at' = "raised"
                 /\ retry_result' = [raised |-> kind, of |-> attempt]
                 /\ UNCHANGED sleeps
            ELSE /\ retry_at' = "sleep"
                 /\ sleeps' = Append(sleeps, Delay(kind, attempt))
                 /\ UNCHANGED retry_result
  /\ UNCHANGED <<max_retries, attempt>>
  /\ UNCHANGED notRetry

\* time.sleep(delay) is over: the next pass of the loop
RetrySleep ==
  /\ job = "retry" /\ retry_at = "sleep"
  /\ attempt' = attempt + 1
  /\ retry_at' = "call"
  /\ UNCHANGED <<max_retries, outcomes, sleeps, retry_result>>
  /\ UNCHANGED notRetry

\* range(max_retries + 1) is exhausted without a return or a raise (only an
\* empty range is): the function falls off its end and returns None
RetryFallThrough ==
  /\ job = "retry" /\ retry_at = "call"
  /\ attempt > max_retries
  /\ retry_at' = "returned"
  /\ retry_result' = [value |-> "None", of |-> attempt]
  /\ UNCHANGED <<max_retries, attempt, outcomes, sleeps>>
  /\ UNCHANGED notRetry

NextRetry == RetryAttempt \/ RetrySleep \/ RetryFallThrough

SpecRetry == InitRetryJob /\ [][NextRetry]_vars

-----------------------------------------------------------------------------
(* The storage-event handler (src/src/oss-to-kb/adb_py_index.py) *)

\* the largest index of c in s, 0 when c is not in s: str.rfind
RFind(s, c) ==
  LET at == {i \in 1..Len(s) : s[i] = c}
  IN  IF at = {} THEN 0 ELSE CHOOSE i \in at : \A j \in at : j <= i

\* object_key.split('/')[-1]
LastSegment(s) == SubSeq(s, RFind(s, "/") + 1, Len(s))

UpperCase == <<"A", "B", "C", "D", "E", "F", "G", "H", "I", "J", "K", "L", "M",
               "N", "O", "P", "Q", "R", "S", "T", "U", "V", "W", "X", "Y", "Z">>
LowerCase == <<"a", "b", "c", "d", "e", "f", "g", "h", "i", "j", "k", "l", "m",
               "n", "o", "p", "q", "r", "s", "t", "u", "v", "w", "x", "y", "z">>
\* str.lower
Lower(s) ==
  [i \in 1..Len(s) |->
     IF \E k \in 1..26 : UpperCase[k] = s[i]
       THEN LowerCase[CHOOSE k \in 1..26 : UpperCase[k] = s[i]]
       ELSE s[i]]

\* os.path.splitext(p)[1]: from the last dot of the last path segment, unless
\* that segment has no other character than dots before it
SplitExt(p) ==
  LET sepIndex == RFind(p, "/")
      dotIndex == RFind(p, ".")
  IN  IF dotIndex > sepIndex /\ \E k \in (sepIndex + 1)..(dotIndex - 1) : p[k] # "."
        THEN SubSeq(p, dotIndex, Len(p))
        ELSE <<>>

\* the percent escapes urllib.parse.unquote meets in the keys of this model
Escapes == (<<"2", "0">> :> " ") @@ (<<"2", "F">> :> "/") @@ (<<"2", "E">> :> ".")

\* urllib.parse.unquote: %XX becomes the character it encodes, anything else is kept
RECURSIVE Unquote(_)
Unquote(s) ==
  IF s = <<>> THEN <<>>
  ELSE IF s[1] = "%" /\ Len(s) >= 3 /\ SubSeq(s, 2, 3) \in DOMAIN Escapes
    THEN <<Escapes[SubSeq(s, 2, 3)]>> \o Unquote(SubSeq(s, 4, Len(s)))
    ELSE <<s[1]>> \o Unquote(Tail(s))

\* an ignore list without the ledger of the sync job
IGNORED_FILES_NoLedger ==
  { <<".", "D", "S", "_", "S", "t", "o", "r", "e">>,
    <<"T", "h", "u", "m", "b", "s", ".", "d", "b">>,
    <<".", "g", "i", "t", "k", "e", "e", "p">>,
    <<".", "g", "i", "t", "i", "g", "n", "o", "r", "e">> }

\* OSSEventProcessor.IGNORED_FILES
IGNORED_FILES ==
  { <<"s", "y", "n", "c", "_", "r", "e", "c", "o", "r", "d", "s", ".", "j", "s", "o", "n">>,
    <<".", "D", "S", "_", "S", "t", "o", "r", "e">>,
    <<"T", "h", "u", "m", "b", "s", ".", "d", "b">>,
    <<".", "g", "i", "t", "k", "e", "e", "p">>,
    <<".", "g", "i", "t", "i", "g", "n", "o", "r", "e">> }

\* OSSEventProcessor.IGNORED_PATTERNS['prefixes']
IGNORED_PREFIXES == { <<".">>, <<"~">>, <<"_", "t", "m", "p", "_">>, <<"t", "e", "m", "p", "_">> }

\* OSSEventProcessor.IGNORED_PATTERNS['suffixes']
IGNORED_SUFFIXES == { <<".", "t", "m", "p">>, <<".", "b", "a", "k">>, <<".", "s", "w", "p">>, <<"~">> }

\* supported_extensions of _should_process_file
supported_extensions ==
  { <<".", "m", "d">>,
    <<".", "t", "x", "t">>,
    <<".", "p", "d", "f">>,
    <<".", "d", "o", "c", "x">>,
    <<".", "d", "o", "c">>,
    <<".", "h", "t", "m", "l">>,
    <<".", "h", "t", "m">>,
    <<".", "j", "s", "o", "n">>,
    <<".", "c", "s", "v">>,
    <<".", "p", "y">>,
    <<".", "j", "a", "v", "a">>,
    <<".", "c", "p", "p">>,
    <<".", "c">>,
    <<".", "h">>,
    <<".", "j", "s">>,
    <<".", "t", "s">>,
    <<".", "j", "s", "x">>,
    <<".", "t", "s", "x">>,
    <<".", "g", "o">>,
    <<".", "r", "s">>,
    <<".", "r", "b">>,
    <<".", "p", "h", "p">>,
    <<".", "x", "m", "l">>,
    <<".", "y", "a", "m", "l">>,
    <<".", "y", "m", "l">>,
    <<".", "t", "o", "m", "l">>,
    <<".", "s", "h">>,
    <<".", "b", "a", "s", "h">>,
    <<".", "s", "q", "l">> }

\* an _is_ignored_file without its list of exact names
is_ignored_file_by_pattern(file_name) ==
  \/ \E prefix \in IGNORED_PREFIXES : StartsWith(file_name, prefix)
  \/ \E suffix \in IGNORED_SUFFIXES : EndsWith(file_name, suffix)

\* OSSEventProcessor._is_ignored_file, its boolean
is_ignored_file(file_name) ==
  IF file_name \in IGNORED_FILES THEN TRUE
  ELSE IF \E prefix \in IGNORED_PREFIXES : StartsWith(file_name, prefix) THEN TRUE
  ELSE IF \E suffix \in IGNORED_SUFFIXES : EndsWith(file_name, suffix) THEN TRUE
  ELSE FALSE

\* OSSEventProcessor._should_process_file: (should_process, reason)
should_process_file(object_key, prefix) ==
  LET file_name == LastSegment(object_key)
      file_ext == SplitExt(Lower(object_key))
  IN  IF is_ignored_file(file_name) THEN [ok |-> FALSE, reason |-> "ignored"]
      ELSE IF ~StartsWith(object_key, prefix) THEN [ok |-> FALSE, reason |-> "prefix"]
      ELSE IF EndsWith(object_key, <<"/">>) THEN [ok |-> FALSE, reason |-> "directory"]
      ELSE IF file_ext = <<>> THEN [ok |-> FALSE, reason |-> "no_extension"]
      ELSE IF file_ext \notin supported_extensions
        THEN [ok |-> FALSE, reason |-> "unsupported_type"]
      ELSE [ok |-> TRUE, reason |-> "ok"]

ObjectCreated == <<"O", "b", "j", "e", "c", "t", "C", "r", "e", "a", "t", "e", "d">>
ObjectModified == <<"O", "b", "j", "e", "c", "t", "M", "o", "d", "i", "f", "i", "e", "d">>
ObjectOverwrote == <<"O", "b", "j", "e", "c", "t", "O", "v", "e", "r", "w", "r", "o", "t", "e">>
ObjectRemoved == <<"O", "b", "j", "e", "c", "t", "R", "e", "m", "o", "v", "e", "d">>

\* a dispatch that looks for ObjectRemoved first
EventBranchRemovedFirst(event_name) ==
  IF Contains(event_name, ObjectRemoved) THEN "delete"
  ELSE IF Contains(event_name, ObjectCreated) THEN "create"
  ELSE IF Contains(event_name, ObjectModified) \/ Contains(event_name, ObjectOverwrote)
    THEN "update"
  ELSE "unsupported"

\* handler: the if/elif chain over event_name
EventBranch(event_name) ==
  IF Contains(event_name, ObjectCreated) THEN "create"
  ELSE IF Contains(event_name, ObjectModified) \/ Contains(event_name, ObjectOverwrote)
    THEN "update"
  ELSE IF Contains(event_name, ObjectRemoved) THEN "delete"
  ELSE "unsupported"

\* max_size of process_create_event and process_update_event
max_size == 200 * 1024 * 1024
\* a size check that refuses content of exactly max_size bytes
TooLargeFromCap(size) == size >= max_size
\* the size check: len(file_content) > max_size
TooLarge(size) == size > max_size
\* the sizes a downloaded object has in this model
Sizes == {0, max_size, max_size + 1}

\* 'wiki/Eng/.DS_Store'
key_ds_store == <<"w", "i", "k", "i", "/", "E", "n", "g", "/", ".", "D", "S", "_", "S", "t", "o", "r", "e">>
\* 'wiki/Eng/notes.md'
key_notes == <<"w", "i", "k", "i", "/", "E", "n", "g", "/", "n", "o", "t", "e", "s", ".", "m", "d">>
\* 'other/notes.md'
key_other == <<"o", "t", "h", "e", "r", "/", "n", "o", "t", "e", "s", ".", "m", "d">>
\* 'wiki/Eng/archive/'
key_archive == <<"w", "i", "k", "i", "/", "E", "n", "g", "/", "a", "r", "c", "h", "i", "v", "e", "/">>
\* 'wiki/sync_records.json'
key_ledger == <<"w", "i", "k", "i", "/", "s", "y", "n", "c", "_", "r", "e", "c", "o", "r", "d", "s", ".", "j", "s", "o", "n">>
\* 'wiki/Eng/NOTES.MD'
key_upper == <<"w", "i", "k", "i", "/", "E", "n", "g", "/", "N", "O", "T", "E", "S", ".", "M", "D">>
\* 'wiki/Eng/README'
key_readme == <<"w", "i", "k", "i", "/", "E", "n", "g", "/", "R", "E", "A", "D", "M", "E">>
\* 'wiki/Eng/pic.png'
key_png == <<"w", "i", "k", "i", "/", "E", "n", "g", "/", "p", "i", "c", ".", "p", "n", "g">>
\* 'wiki/Eng/notes.md.bak'
key_bak == <<"w", "i", "k", "i", "/", "E", "n", "g", "/", "n", "o", "t", "e", "s", ".", "m", "d", ".", "b", "a", "k">>
\* 'wiki/Eng/~draft.md'
key_draft == <<"w", "i", "k", "i", "/", "E", "n", "g", "/", "~", "d", "r", "a", "f", "t", ".", "m", "d">>
\* 'wiki/Ops/notes.md'
key_sibling == <<"w", "i", "k", "i", "/", "O", "p", "s", "/", "n", "o", "t", "e", "s", ".", "m", "d">>
\* 'wiki/v1.2/README'
key_dotted_dir == <<"w", "i", "k", "i", "/", "v", "1", ".", "2", "/", "R", "E", "A", "D", "M", "E">>
\* 'wiki/Eng/my%20doc.md'
key_quoted == <<"w", "i", "k", "i", "/", "E", "n", "g", "/", "m", "y", "%", "2", "0", "d", "o", "c", ".", "m", "d">>
\* 'wiki/Eng/_tmp_x.md'
key_tmp == <<"w", "i", "k", "i", "/", "E", "n", "g", "/", "_", "t", "m", "p", "_", "x", ".", "m", "d">>
\* 'kb/notes.md'
key_kb == <<"k", "b", "/", "n", "o", "t", "e", "s", ".", "m", "d">>
\* 'wiki%2FEng%2Fa.txt'
key_quoted_sep == <<"w", "i", "k", "i", "%", "2", "F", "E", "n", "g", "%", "2", "F", "a", ".", "t", "x", "t">>

\* the object keys of the notifications, as delivered (percent-encoded), and ''
Keys == {key_ds_store, key_notes, key_other, key_archive, key_ledger, key_upper, key_readme, key_png, key_bak, key_draft, key_sibling, key_dotted_dir, key_quoted, key_tmp, key_kb, key_quoted_sep, <<>>}

\* the event names of the notifications, and ''
EventNames ==
  { <<"O", "b", "j", "e", "c", "t", "C", "r", "e", "a", "t", "e", "d", ":", "P", "u", "t", "O", "b", "j", "e", "c", "t">>,
    <<"O", "b", "j", "e", "c", "t", "M", "o", "d", "i", "f", "i", "e", "d", ":", "U", "p", "d", "a", "t", "e", "O", "b", "j", "e", "c", "t", "M", "e", "t", "a">>,
    <<"O", "b", "j", "e", "c", "t", "O", "v", "e", "r", "w", "r", "o", "t", "e", ":", "P", "u", "t", "O", "b", "j", "e", "c", "t">>,
    <<"O", "b", "j", "e", "c", "t", "R", "e", "m", "o", "v", "e", "d", ":", "D", "e", "l", "e", "t", "e", "O", "b", "j", "e", "c", "t">>,
    <<"O", "b", "j", "e", "c", "t", "R", "e", "m", "o", "v", "e", "d", ":", "O", "b", "j", "e", "c", "t", "C", "r", "e", "a", "t", "e", "d">>,
    <<"O", "b", "j", "e", "c", "t", "M", "o", "d", "i", "f", "i", "e", "d", ":", "O", "b", "j", "e", "c", "t", "R", "e", "m", "o", "v", "e", "d">>,
    <<"O", "b", "j", "e", "c", "t", "R", "e", "p", "l", "i", "c", "a", "t", "i", "o", "n", ":", "O", "b", "j", "e", "c", "t", "C", "r", "e", "a", "t", "e", "d">>,
    <<"O", "b", "j", "e", "c", "t", "R", "e", "s", "t", "o", "r", "e">>,
    <<"o", "b", "j", "e", "c", "t", "c", "r", "e", "a", "t", "e", "d", ":", "p", "u", "t", "o", "b", "j", "e", "c", "t">> ,
    <<>> }

\* OSS_PREFIX_FILTER of the environment: its default and another one
PrefixFilters == { <<"w", "i", "k", "i", "/">>, <<"k", "b", "/">> }

\* the notifications handler is invoked with: one record of an object event, a
\* notification without records, and a payload that decodes to no JSON object
Notifications ==
  {[kind |-> "record", key |-> k, event_name |-> n] : k \in Keys, n \in EventNames}
    \cup {[kind |-> "no_events"], [kind |-> "not_json"]}

EmptyIndex == <<>>

\* what the index can hold under the file name of the notified object when the
\* handler starts: nothing, the object itself, or a sibling of the same base name
IndexBefore(e) ==
  IF e.kind # "record" THEN {EmptyIndex}
  ELSE LET object_key == Unquote(e.key)
           file_name == LastSegment(object_key)
       IN  {EmptyIndex, file_name :> object_key}
             \cup {file_name :> k : k \in {k2 \in {key_sibling} \ {object_key} :
                                            LastSegment(k2) = file_name}}

InitEvent ==
  /\ event \in Notifications
  /\ prefix_filter \in PrefixFilters
  /\ adb_config_ok \in BOOLEAN
  /\ index \in IndexBefore(event)
  /\ epc = "start"
  /\ file_info = NotCalled
  /\ branch = "none"
  /\ should_process = NotCalled
  /\ delete_success = FALSE
  /\ content_size = 0
  /\ result = NotCalled
  /\ eops = <<>>

\* handler's except clause: the 500 response
ErrorResponseAs200 == [statusCode |-> 200, body |-> [success |-> FALSE]]
ErrorResponse == [statusCode |-> 500, body |-> [success |-> FALSE]]

\* an exception reaches handler's except clause
Escape ==
  /\ escaped' = TRUE
  /\ response' = ErrorResponse
  /\ epc' = "returned"

\* a process_*_event call is over with this result
Processed(r) == result' = r /\ epc' = "respond"

\* handler: decode_event_if_needed, then OSSEventProcessor(), whose
\* AnalyticDBClient validates the configuration
CreateProcessor ==
  /\ job = "event" /\ epc = "start"
  /\ IF adb_config_ok
       THEN epc' = "extract" /\ UNCHANGED <<response, escaped>>
       ELSE Escape
  /\ UNCHANGED <<event, prefix_filter, adb_config_ok, index, file_info, branch,
                 should_process, delete_success, content_size, result, eops>>
  /\ UNCHANGED notEvent

\* an _extract_file_info_from_event that reads a missing record as an empty one
ExtractFileInfoLenient ==
  /\ job = "event" /\ epc = "extract"
  /\ IF event.kind \in {"record", "no_events"}
       THEN /\ file_info' = IF event.kind = "record"
                              THEN [object_key |-> Unquote(event.key),
                                    file_name |-> LastSegment(Unquote(event.key)),
                                    event_name |-> event.event_name]
                              ELSE [object_key |-> <<>>, file_name |-> <<>>,
                                    event_name |-> <<>>]
            /\ epc' = "dispatch"
            /\ UNCHANGED <<response, escaped>>
       ELSE /\ Escape
            /\ UNCHANGED file_info
  /\ UNCHANGED <<event, prefix_filter, adb_config_ok, index, branch,
                 should_process, delete_success, content_size, result, eops>>
  /\ UNCHANGED notEvent

\* _extract_file_info_from_event: a payload that is no dict or has no events
\* raises; else the key is unquoted and file_name is its last segment
ExtractFileInfo ==
  /\ job = "event" /\ epc = "extract"
  /\ IF event.kind = "record"
       THEN /\ file_info' = [object_key |-> Unquote(event.key),
                             file_name |-> LastSegment(Unquote(event.key)),
                             event_name |-> event.event_name]
            /\ epc' = "dispatch"
            /\ UNCHANGED <<response, escaped>>
       ELSE /\ Escape
            /\ UNCHANGED file_info
  /\ UNCHANGED <<event, prefix_filter, adb_config_ok, index, branch,
                 should_process, delete_success, content_size, result, eops>>
  /\ UNCHANGED notEvent

\* handler: the branch taken for event_name
Dispatch ==
  /\ job = "event" /\ epc = "dispatch"
  /\ branch' = EventBranch(file_info.event_name)
  /\ IF branch' = "unsupported"
       THEN Processed([action |-> "unsupported"])
       ELSE epc' = "filter" /\ UNCHANGED result
  /\ UNCHANGED <<event, prefix_filter, adb_config_ok, index, file_info,
                 should_process, delete_success, content_size, eops,
                 response, escaped>>
  /\ UNCHANGED notEvent

\* process_*_event that go on whatever _should_process_file answers
ShouldProcessUnfiltered ==
  /\ job = "event" /\ epc = "filter"
  /\ should_process' = should_process_file(file_info.object_key, prefix_filter)
  /\ epc' = CASE branch = "create" -> "download"
             [] branch = "update" -> "delete_old"
             [] branch = "delete" -> "delete"
  /\ UNCHANGED result
  /\ UNCHANGED <<event, prefix_filter, adb_config_ok, index, file_info, branch,
                 delete_success, content_size, eops, response, escaped>>
  /\ UNCHANGED notEvent

\* process_*_event: _should_process_file, and the skip result when it refuses
ShouldProcess ==
  /\ job = "event" /\ epc = "filter"
  /\ should_process' = should_process_file(file_info.object_key, prefix_filter)
  /\ IF should_process'.ok
       THEN /\ epc' = CASE branch = "create" -> "download"
                        [] branch = "update" -> "delete_old"
                        [] branch = "delete" -> "delete"
            /\ UNCHANGED result
       ELSE Processed([action |-> "skip", reason |-> should_process'.reason])
  /\ UNCHANGED <<event, prefix_filter, adb_config_ok, index, file_info, branch,
                 delete_success, content_size, eops, response, escaped>>
  /\ UNCHANGED notEvent

\* the index holds no entry under a name (no object key has this form)
NoEntry == <<>>
\* the object key the entry under file_name was created from, for the log
Held(idx, file_name) == IF file_name \in DOMAIN idx THEN idx[file_name] ELSE NoEntry

\* AnalyticDBClient.delete_document: True when the service reports success,
\* False on any other status and on any exception
delete_document(idx, file_name, ok) ==
  IF ok THEN [n \in DOMAIN idx \ {file_name} |-> idx[n]] ELSE idx

\* what the delete call of the index service does: it reports success, it
\* reports another status, or the call raises
DeleteResults == {"success", "failure", "raised"}

\* a process_update_event that gives up when the old document is not deleted
DeleteOldOrFail ==
  /\ job = "event" /\ epc = "delete_old"
  /\ \E outcome \in DeleteResults :
       LET ok == outcome = "success"
       IN  /\ index' = delete_document(index, file_info.file_name, ok)
           /\ delete_success' = ok
           /\ eops' = Append(eops, [op |-> "index_delete", outcome |-> outcome,
                                    file_name |-> file_info.file_name, ok |-> ok,
                                    held |-> Held(index, file_info.file_name)])
           /\ IF ok THEN epc' = "download" /\ UNCHANGED result
              ELSE result' = [action |-> "update", status |-> "failed"]
                   /\ epc' = "respond"
  /\ UNCHANGED <<event, prefix_filter, adb_config_ok, file_info, branch,
                 should_process, content_size, response, escaped>>
  /\ UNCHANGED notEvent

\* process_update_event step 1: the old document is deleted, the outcome kept
DeleteOld ==
  /\ job = "event" /\ epc = "delete_old"
  /\ \E outcome \in DeleteResults :
       LET ok == outcome = "success"
       IN  /\ index' = delete_document(index, file_info.file_name, ok)
           /\ delete_success' = ok
           /\ eops' = Append(eops, [op |-> "index_delete", outcome |-> outcome,
                                    file_name |-> file_info.file_name, ok |-> ok,
                                    held |-> Held(index, file_info.file_name)])
  /\ epc' = "download"
  /\ UNCHANGED <<event, prefix_filter, adb_config_ok, file_info, branch,
                 should_process, content_size, result, response, escaped>>
  /\ UNCHANGED notEvent

\* the failed result of process_create_event and of process_update_event
FailedResult == [action |-> IF branch = "create" THEN "upload" ELSE "update",
                 status |-> "failed"]

\* process_create_event / process_update_event: download_file_content, then
\* the size check; a failed download and an oversized object end in the
\* except clause of the process function
Download ==
  /\ job = "event" /\ epc = "download"
  /\ \/ /\ eops' = Append(eops, [op |-> "download", key |-> file_info.object_key,
                                   ok |-> FALSE])
        /\ Processed(FailedResult)
        /\ UNCHANGED content_size
     \/ \E size \in Sizes :
          /\ eops' = Append(eops, [op |-> "download", key |-> file_info.object_key,
                                   ok |-> TRUE])
          /\ content_size' = size
          /\ IF TooLarge(size)
               THEN Processed(FailedResult)
               ELSE epc' = "submit" /\ UNCHANGED result
  /\ UNCHANGED <<event, prefix_filter, adb_config_ok, index, file_info, branch,
                 should_process, delete_success, response, escaped>>
  /\ UNCHANGED notEvent

\* upload_document_with_content: the job is submitted under file_name, or the
\* call raises (transport failure, or a status other than success)
Submit ==
  /\ job = "event" /\ epc = "submit"
  /\ \E ok \in BOOLEAN :
       /\ eops' = Append(eops, [op |-> "index_upload",
                                file_name |-> file_info.file_name, ok |-> ok])
       /\ IF ok
            THEN /\ index' = [n \in DOMAIN index \cup {file_info.file_name} |->
                                IF n = file_info.file_name
                                  THEN file_info.object_key ELSE index[n]]
                 /\ Processed(IF branch = "create"
                                THEN [action |-> "upload", status |-> "success"]
                                ELSE [action |-> "update", status |-> "success",
                                      delete_success |-> delete_success])
            ELSE /\ Processed(FailedResult)
                 /\ UNCHANGED index
  /\ UNCHANGED <<event, prefix_filter, adb_config_ok, file_info, branch,
                 should_process, delete_success, content_size, response, escaped>>
  /\ UNCHANGED notEvent

\* a process_delete_event that deletes by the full object key
DeleteDocumentByKey ==
  /\ job = "event" /\ epc = "delete"
  /\ \E outcome \in DeleteResults :
       LET ok == outcome = "success"
       IN  /\ index' = delete_document(index, file_info.object_key, ok)
           /\ eops' = Append(eops, [op |-> "index_delete", outcome |-> outcome,
                                    file_name |-> file_info.object_key, ok |-> ok,
                                    held |-> Held(index, file_info.object_key)])
           /\ Processed([action |-> "delete",
                         status |-> IF ok THEN "success" ELSE "failed"])
  /\ UNCHANGED <<event, prefix_filter, adb_config_ok, file_info, branch,
                 should_process, delete_success, content_size, response, escaped>>
  /\ UNCHANGED notEvent

\* process_delete_event: delete_document by file_name
DeleteDocument ==
  /\ job = "event" /\ epc = "delete"
  /\ \E outcome \in DeleteResults :
       LET ok == outcome = "success"
       IN  /\ index' = delete_document(index, file_info.file_name, ok)
           /\ eops' = Append(eops, [op |-> "index_delete", outcome |-> outcome,
                                    file_name |-> file_info.file_name, ok |-> ok,
                                    held |-> Held(index, file_info.file_name)])
           /\ Processed([action |-> "delete",
                         status |-> IF ok THEN "success" ELSE "failed"])
  /\ UNCHANGED <<event, prefix_filter, adb_config_ok, file_info, branch,
                 should_process, delete_success, content_size, response, escaped>>
  /\ UNCHANGED notEvent

\* handler: the 200 response around the result
Respond ==
  /\ job = "event" /\ epc = "respond"
  /\ response' = [statusCode |-> 200,
                  body |-> [success |-> TRUE, event_name |-> file_info.event_name,
                            result |-> result]]
  /\ epc' = "returned"
  /\ UNCHANGED <<event, prefix_filter, adb_config_ok, index, file_info, branch,
                 should_process, delete_success, content_size, result, eops, escaped>>
  /\ UNCHANGED notEvent

NextEvent ==
  \/ CreateProcessor \/ ExtractFileInfo \/ Dispatch \/ ShouldProcess
  \/ DeleteOld \/ Download \/ Submit \/ DeleteDocument \/ Respond

SyncIdle ==
  /\ upstream = [t \in Tokens |-> Absent] /\ storage = {} /\ persisted = EmptyLedger
  /\ config_ok = TRUE /\ pc = "idle" /\ sync_records = EmptyLedger /\ nodes = {}
  /\ queue = <<>> /\ current_doc_tokens = {} /\ running = EmptyLedger
  /\ counts = NoCounts /\ oplog = NoOps /\ trace = <<>>
  /\ runs = 0 /\ changes = 0 /\ last = NoRun /\ faults = 0

InitEventJob ==
  /\ job = "event" /\ InitEvent
  /\ response = NoResponse /\ escaped = FALSE
  /\ SyncIdle /\ NeedIdle /\ RetryIdle /\ PathIdle /\ WalkIdle

SpecEvent == InitEventJob /\ [][NextEvent]_vars

-----------------------------------------------------------------------------
(* generate_oss_path on every title *)

\* the characters of the titles and space names tried
PathChars == {"a", ".", " ", "\t"} \cup InvalidChars

\* the strings over PathChars of length n or less
PathStrings(n) == UNION {[1..k -> PathChars] : k \in 0..n}

\* WIKI_SPACE_NAME: unset, a plain name, a name to be sanitized
PathSpaces == {<<>>, <<"E", "n", "g">>, <<" ", "a", "/", "b">>}

\* the nodes passed: the fields of WikiNode that tell documents apart
PathNodes ==
  [title : PathStrings(MaxTitleLen), space_id : {<<"s", "1">>, <<"s", ":", "2">>},
   obj_token : {"t1", "t2"}, node_token : {"n1", "n2"}]

InitPathJob ==
  /\ job = "path"
  /\ path_call \in [node : PathNodes, space : PathSpaces, result : {NotCalled}]
  /\ response = NoResponse /\ escaped = FALSE
  /\ SyncIdle /\ NeedIdle /\ RetryIdle /\ EventIdle /\ WalkIdle

\* a call of FeishuWikiSyncer.generate_oss_path
CallGenerateOssPath ==
  /\ job = "path" /\ path_call.result = NotCalled
  /\ path_call' = [path_call EXCEPT
                     !.result = [value |-> generate_oss_path(path_call.node,
                                                             path_call.space)]]
  /\ UNCHANGED notPath

SpecPath == InitPathJob /\ [][CallGenerateOssPath]_vars

-----------------------------------------------------------------------------
(* get_wiki_nodes on a space of its own, and the pool fed with its output *)

\* the nodes of the space, by node_token, and the parent whose listing holds each
NodeTokens == {"n1", "n2", "n3", "n4", "n5", "n6"}
ParentOf(n) == CASE n \in {"n1", "n2", "n3"} -> "root"
                 [] n \in {"n4", "n5"} -> "n1"
                 [] OTHER -> "n3"

\* the pages the listing API serves for a parent, in order; a parent without
\* children has one empty page
ListingPages(p) ==
  CASE p = "root" -> << <<"n1", "n2">>, <<"n3">> >>
    [] p = "n1" -> << <<"n4">>, <<"n5">> >>
    [] p = "n3" -> << <<"n6">> >>
    [] OTHER -> << <<>> >>

NoPageToken == [none |-> TRUE]

\* the answer of GET /wiki/v2/spaces/{space_id}/nodes: the first page when no
\* page_token is sent, else the page the token stands for
ListingResponse(p, page_token) ==
  LET k == IF page_token = NoPageToken THEN 1 ELSE page_token.page
      pages == ListingPages(p)
  IN  [items |-> pages[k], has_more |-> k < Len(pages),
       page_token |-> IF k < Len(pages) THEN [parent |-> p, page |-> k + 1]
                      ELSE NoPageToken]

\* every node a document of its own
OwnDocuments == [n \in NodeTokens |-> CASE n = "n1" -> "d1" [] n = "n2" -> "d2"
                                        [] n = "n3" -> "d3" [] n = "n4" -> "d4"
                                        [] n = "n5" -> "d5" [] OTHER -> "d6"]
\* the spaces walked: which nodes have has_child set (n5 has it with no child
\* listed; n3 can lack it), and n3 as a second node of the document of n2
WikiSpaces ==
  [has_child : {{"n1", "n3"}, {"n1"}, {"n1", "n3", "n5"}},
   obj_token : {OwnDocuments, [OwnDocuments EXCEPT !["n3"] = "d2"]}]

\* obj_type of a node; n4 is a spreadsheet
WalkObjType(n) == IF n = "n4" THEN "sheet" ELSE "docx"

\* the WikiNode get_wiki_nodes builds from an item of a page
WalkNode(n) == [node_token |-> n, obj_token |-> wiki.obj_token[n],
                obj_type |-> WalkObjType(n), title |-> <<"a">>, obj_edit_time |-> "1"]

\* a call of get_wiki_nodes at the head of _get_nodes: all_nodes = [],
\* page_token = None; attempt is the loop variable of _retry_with_backoff
NewCall(p, n) ==
  [parent |-> p, attempt |-> n, phase |-> "request", page_token |-> NoPageToken,
   pending |-> <<>>, has_more |-> FALSE, next_token |-> NoPageToken,
   all_nodes |-> <<>>]

InitWalkJob ==
  /\ job = "walk"
  /\ wiki \in WikiSpaces
  /\ wat = "walk"
  /\ wstack = <<NewCall("root", 0)>>
  /\ wrequests = <<>> /\ wreturn = NotCalled /\ wfailed = {} /\ wfaults = 0
  /\ wqueue = <<>> /\ wrunning = {} /\ wledger = <<>> /\ wwrites = <<>>
  /\ response = NoResponse /\ escaped = FALSE
  /\ SyncIdle /\ NeedIdle /\ RetryIdle /\ EventIdle /\ PathIdle

\* what a listing request does: an answer with code 0; a failed answer that is
\* no rate limit (the loop breaks); a rate-limited answer (RateLimitError); or
\* requests.get raises
RequestOutcomes == IF wfaults < MaxWalkFaults
                     THEN {"ok", "error", "rate_limit", "exception"}
                     ELSE {"ok"}

TopCall == wstack[Len(wstack)]
SetTopCall(f) == [wstack EXCEPT ![Len(wstack)] = f]

\* a walk in which an exception of a child call is caught nowhere
CatchNowhere(stack) == <<>>

\* an exception leaves the innermost call: the except clause around the
\* recursive call catches it in the caller, whose loop goes on
CatchInCaller(stack) == SubSeq(stack, 1, Len(stack) - 1)

\* a page loop that never asks for a further page
has_more_never(data) == FALSE

\* data.get('has_more', False)
has_more_of(data) == data.has_more

\* _get_nodes: one requests.get of the page loop, and what follows from its
\* answer; a RateLimitError restarts _get_nodes while retries are left
WalkRequest ==
  /\ job = "walk" /\ wat = "walk" /\ TopCall.phase = "request"
  /\ \E outcome \in RequestOutcomes :
       LET f == TopCall
           data == ListingResponse(f.parent, f.page_token)
           rest == CatchInCaller(wstack)
       IN  /\ wrequests' = Append(wrequests, [parent |-> f.parent,
                                              page_token |-> f.page_token,
                                              outcome |-> outcome])
           /\ wfaults' = IF outcome = "ok" THEN wfaults ELSE wfaults + 1
           /\ CASE outcome = "ok" ->
                     /\ wstack' = SetTopCall([f EXCEPT !.phase = "items",
                                                       !.pending = data.items,
                                                       !.has_more = has_more_of(data),
                                                       !.next_token = data.page_token])
                     /\ UNCHANGED <<wat, wreturn, wfailed>>
                [] outcome = "error" ->
                     /\ wstack' = SetTopCall([f EXCEPT !.phase = "done"])
                     /\ wfailed' = wfailed \cup {f.parent}
                     /\ UNCHANGED <<wat, wreturn>>
                [] outcome = "rate_limit"
                     /\ ~Reraise("RateLimitError", f.attempt, MaxWalkRetries) ->
                     /\ wstack' = SetTopCall(NewCall(f.parent, f.attempt + 1))
                     /\ UNCHANGED <<wat, wreturn, wfailed>>
                [] OTHER ->
                     /\ wstack' = rest
                     /\ wfailed' = wfailed \cup {f.parent}
                     /\ IF rest = <<>>
                          THEN wat' = "raised" /\ wreturn' = [raised |-> outcome]
                          ELSE UNCHANGED <<wat, wreturn>>
  /\ UNCHANGED <<wiki, wqueue, wrunning, wledger, wwrites>>
  /\ UNCHANGED notWalk

\* _get_nodes: one pass of the for loop over the items of a page; the node is
\* appended, and a node with has_child starts the recursive call
WalkItem ==
  /\ job = "walk" /\ wat = "walk"
  /\ TopCall.phase = "items" /\ TopCall.pending # <<>>
  /\ LET f == TopCall
         n == Head(f.pending)
         g == [f EXCEPT !.pending = Tail(@), !.all_nodes = Append(@, n)]
     IN  wstack' = IF n \in wiki.has_child
                     THEN Append(SetTopCall(g), NewCall(n, 0))
                     ELSE SetTopCall(g)
  /\ UNCHANGED <<wiki, wat, wrequests, wreturn, wfailed, wfaults, wqueue, wrunning,
                 wledger, wwrites>>
  /\ UNCHANGED notWalk

\* _get_nodes: the end of a page; the loop breaks unless has_more, else
\* page_token = data.get('page_token')
WalkPageEnd ==
  /\ job = "walk" /\ wat = "walk"
  /\ TopCall.phase = "items" /\ TopCall.pending = <<>>
  /\ LET f == TopCall
     IN  wstack' = SetTopCall(IF f.has_more
                                THEN [f EXCEPT !.phase = "request",
                                               !.page_token = f.next_token]
                                ELSE [f EXCEPT !.phase = "done"])
  /\ UNCHANGED <<wiki, wat, wrequests, wreturn, wfailed, wfaults, wqueue, wrunning,
                 wledger, wwrites>>
  /\ UNCHANGED notWalk

\* get_wiki_nodes returns all_nodes: the caller extends its own list with them;
\* the outermost call returns to sync_wiki_space
WalkReturn ==
  /\ job = "walk" /\ wat = "walk" /\ TopCall.phase = "done"
  /\ LET f == TopCall
         rest == SubSeq(wstack, 1, Len(wstack) - 1)
     IN  IF rest = <<>>
           THEN /\ wstack' = <<>>
                /\ wreturn' = [nodes |-> f.all_nodes]
                /\ wat' = IF f.all_nodes = <<>> THEN "done" ELSE "classify"
           ELSE /\ wstack' = [rest EXCEPT ![Len(rest)].all_nodes = @ \o f.all_nodes]
                /\ UNCHANGED <<wat, wreturn>>
  /\ UNCHANGED <<wiki, wrequests, wfailed, wfaults, wqueue, wrunning, wledger,
                 wwrites>>
  /\ UNCHANGED notWalk

\* doc_nodes of sync_documents_parallel, as a list
RECURSIVE DocxOf(_)
DocxOf(ns) ==
  IF ns = <<>> THEN <<>>
  ELSE (IF WalkObjType(Head(ns)) = "docx" THEN <<Head(ns)>> ELSE <<>>) \o DocxOf(Tail(ns))

\* nodes_to_sync of sync_documents_parallel: the doc_nodes that need_update
RECURSIVE NodesToSync(_, _)
NodesToSync(ns, records) ==
  IF ns = <<>> THEN <<>>
  ELSE (IF need_update(WalkNode(Head(ns)), records) THEN <<Head(ns)>> ELSE <<>>)
         \o NodesToSync(Tail(ns), records)

\* sync_documents_parallel up to the pool: every node of nodes_to_sync is
\* submitted to the executor
WalkClassify ==
  /\ job = "walk" /\ wat = "classify"
  /\ wqueue' = NodesToSync(DocxOf(wreturn.nodes), wledger)
  /\ wat' = IF wqueue' = <<>> THEN "done" ELSE "pool"
  /\ UNCHANGED <<wiki, wstack, wrequests, wreturn, wfailed, wfaults, wrunning,
                 wledger, wwrites>>
  /\ UNCHANGED notWalk

\* a worker takes the next submitted node: sync_single_document step 1
WorkerStart ==
  /\ job = "walk" /\ wat = "pool"
  /\ wqueue # <<>> /\ Cardinality(wrunning) < max_workers
  /\ wqueue' = Tail(wqueue)
  /\ wrunning' = IF need_update(WalkNode(Head(wqueue)), wledger)
                   THEN wrunning \cup {Head(wqueue)} ELSE wrunning
  /\ UNCHANGED <<wiki, wat, wstack, wrequests, wreturn, wfailed, wfaults, wledger,
                 wwrites>>
  /\ UNCHANGED notWalk

\* sync_single_document steps 2 to 8 of a node, none of which fails: the
\* ledger entry is written under the obj_token of the node
WorkerFinish(n) ==
  /\ job = "walk" /\ wat = "pool" /\ n \in wrunning
  /\ wrunning' = wrunning \ {n}
  /\ wledger' = (wiki.obj_token[n] :>
                   SyncRecord(WalkNode(n), OssPath(WalkNode(n).title))) @@ wledger
  /\ wwrites' = Append(wwrites, [key |-> wiki.obj_token[n], by |-> n])
  /\ UNCHANGED <<wiki, wat, wstack, wrequests, wreturn, wfailed, wfaults, wqueue>>
  /\ UNCHANGED notWalk

\* the with-block of the executor ends
WalkPoolDrained ==
  /\ job = "walk" /\ wat = "pool"
  /\ wqueue = <<>> /\ wrunning = {}
  /\ wat' = "done"
  /\ UNCHANGED <<wiki, wstack, wrequests, wreturn, wfailed, wfaults, wqueue,
                 wrunning, wledger, wwrites>>
  /\ UNCHANGED notWalk

NextWalk ==
  \/ WalkRequest \/ WalkItem \/ WalkPageEnd \/ WalkReturn
  \/ WalkClassify \/ WorkerStart
  \/ \E n \in NodeTokens : WorkerFinish(n)
  \/ WalkPoolDrained

SpecWalk == InitWalkJob /\ [][NextWalk]_vars

\* the walk keeps running: every step it can take is taken
FairSpecWalk == SpecWalk /\ WF_vars(NextWalk)

-----------------------------------------------------------------------------
(* Both handlers: a behaviour is one of the two jobs *)

Init == InitSyncJob \/ InitEventJob

Next == NextSync \/ NextEvent

Spec == Init /\ [][Next]_vars

\* a handler that was invoked keeps running: every step it can take is taken
FairSpec == Spec /\ WF_vars(Next)

-----------------------------------------------------------------------------
(* Properties of the sync job *)

\* the calls of kind op this run issued for t
OpsOf(t, op) == {i \in 1..Len(oplog[t]) : oplog[t][i].op = op}
\* the storage deletes this run issued for t, by the step that issued them
DeletesOf(t, why) == {i \in OpsOf(t, "delete") : oplog[t][i].why = why}
\* document uploads issued in this run
Uploads == {<<t, i>> \in Tokens \X (1..4) : i \in OpsOf(t, "put")}
\* sync_single_document of t returned True after writing the ledger entry
Synced(t) == oplog[t] # <<>> /\ oplog[t][Len(oplog[t])].op = "record"
\* t was classified as unchanged
Skipped(t) == \E i \in OpsOf(t, "need_update") :
                oplog[t][i].at = "classify" /\ ~oplog[t][i].result
\* the ledger entry of t has the title and the edit time of t's descriptor
Matches(t, records) ==
  /\ t \in DOMAIN records
  /\ records[t].title = upstream[t].title
  /\ records[t].obj_edit_time = upstream[t].obj_edit_time
\* the ledger as __init__ loaded it; persisted is written by the save step only
Loaded == IF Did("load", TRUE) THEN persisted ELSE EmptyLedger
InRun == pc \in {"classify", "pool", "reconcile", "save"}

\* C1: need_update(D) is true iff D.obj_token is no key of the ledger, or the
\* recorded title differs from D.title, or the recorded edit time differs from
\* D.obj_edit_time; and the call leaves the ledger as it was
C1_NeedUpdateIff ==
  need_result # NotCalled =>
    /\ need_result.value =
         (\/ need_node.obj_token \notin DOMAIN need_before
          \/ need_before[need_node.obj_token].title # need_node.title
          \/ need_before[need_node.obj_token].obj_edit_time # need_node.obj_edit_time)
    /\ sync_records = need_before

\* need_update was called on a descriptor whose ledger entry has another title
\* and the same edit time, and returned true
C1_Witness ==
  /\ need_result # NotCalled
  /\ need_node.obj_token \in DOMAIN need_before
  /\ need_before[need_node.obj_token].title # need_node.title
  /\ need_before[need_node.obj_token].obj_edit_time = need_node.obj_edit_time
  /\ need_result.value = TRUE

C3_AsClaimed ==
  Did("reconcile", TRUE) =>
    /\ StaleKeys(sync_records, current_doc_tokens) = {}
    /\ \A t \in Tokens : Cardinality(DeletesOf(t, "reconcile")) <= 1
    /\ counts.deleted = Cardinality({t \in Tokens : DeletesOf(t, "reconcile") # {}})

\* C4: a successful sync of a document whose loaded ledger title differs from
\* its title issued a storage delete for the recorded path and a write at the
\* path of the new title, and the ledger entry of the document has the new path
\* and the new title
C4_Rename ==
  InRun =>
    \A t \in DOMAIN Loaded :
      (Synced(t) /\ Loaded[t].title # upstream[t].title) =>
        /\ \E i \in DeletesOf(t, "rename") : oplog[t][i].path = Loaded[t].oss_path
        /\ \E i \in OpsOf(t, "put") :
             oplog[t][i].path = OssPath(upstream[t].title) /\ oplog[t][i].ok
        /\ t \in DOMAIN sync_records
        /\ sync_records[t].oss_path = OssPath(upstream[t].title)
        /\ sync_records[t].title = upstream[t].title

\* a renamed document was synced, and its old and new paths differ
C4_Witness ==
  /\ pc = "save"
  /\ \E t \in DOMAIN Loaded :
       /\ Synced(t) /\ Loaded[t].title # upstream[t].title
       /\ Loaded[t].oss_path # OssPath(upstream[t].title)

FetchIssued(t) ==
  /\ Len(oplog'[t]) = Len(oplog[t]) + 1
  /\ oplog'[t][Len(oplog'[t])].op = "fetch"

\* C6: a content fetch is issued for a document only after need_update was
\* evaluated for it in sync_single_document and returned true, and never for a
\* document whose ledger entry has the title and the edit time of its descriptor
C6_FetchAfterCheck ==
  [][\A t \in Tokens :
       FetchIssued(t) =>
         /\ \E i \in OpsOf(t, "need_update") :
              oplog[t][i].at = "worker" /\ oplog[t][i].result
         /\ \A i \in OpsOf(t, "need_update") : oplog[t][i].result
         /\ ~Matches(t, sync_records)]_vars

\* a fetch was issued for one document while another one was skipped unfetched
C6_Witness ==
  /\ \E t \in Tokens : OpsOf(t, "fetch") # {}
  /\ \E t \in current_doc_tokens : Skipped(t) /\ OpsOf(t, "fetch") = {}

\* t was classified as needing sync
ToSync(t) == \E i \in OpsOf(t, "need_update") :
               oplog[t][i].at = "classify" /\ oplog[t][i].result
\* a worker started sync_single_document for t
Attempted(t) == \E i \in OpsOf(t, "need_update") : oplog[t][i].at = "worker"
\* the fetch of t returned content and its upload succeeded
OwnStepsOk(t) ==
  /\ \E i \in OpsOf(t, "fetch") : oplog[t][i].outcome = "content"
  /\ \E i \in OpsOf(t, "put") : oplog[t][i].ok
\* sync_documents_parallel is past its pool
PoolOver == pc \in {"reconcile", "save", "returned"} /\ Did("classify", TRUE)

\* C11: whichever to-sync documents fail, every to-sync document is attempted,
\* a document whose own fetch and upload succeeded is synced, the counts
\* successful and failed are those of the documents synced and failed, and the
\* run returns its report with code 0 instead of raising
C11_FailureIsolation ==
  PoolOver =>
    LET to_sync == {t \in current_doc_tokens : ToSync(t)}
    IN  /\ \A t \in to_sync : Attempted(t) /\ (Synced(t) <=> OwnStepsOk(t))
        /\ counts.successful = Cardinality({t \in to_sync : Synced(t)})
        /\ counts.failed = Cardinality({t \in to_sync : ~Synced(t)})
        /\ ~escaped
        /\ pc = "returned" =>
             /\ response.statusCode = 200 /\ response.body.code = 0
             /\ response.body.failed = counts.failed
             /\ response.body.successful = counts.successful

\* a run returned after one document failed and its sibling was synced
C11_Witness ==
  /\ pc = "returned" /\ PoolOver
  /\ \E t \in current_doc_tokens : ToSync(t) /\ ~Synced(t)
  /\ \E t \in current_doc_tokens : ToSync(t) /\ Synced(t)

\* C12: deletion reconciliation starts only when no document is queued or in
\* progress in the pool; the live set is assigned before the pool starts and
\* not afterwards; and a ledger entry is removed only in reconciliation
C12_ReconcileAfterPool ==
  /\ [](Did("pool_drained", TRUE) \/ pc = "reconcile" \/ Did("reconcile", TRUE)
          => queue = <<>> /\ DOMAIN running = {})
  /\ [][/\ (current_doc_tokens' # current_doc_tokens /\ pc # "returned")
             => pc = "classify" /\ current_doc_tokens' = DocNodes(nodes)
        /\ ((\E t \in DOMAIN sync_records : t \notin DOMAIN sync_records')
              /\ pc # "returned")
             => /\ pc = "reconcile" /\ DOMAIN running = {} /\ queue = <<>>
                /\ \A t \in DOMAIN sync_records \ DOMAIN sync_records' :
                     t \notin DocNodes(nodes)]_vars

\* reconciliation removed a ledger entry in a run whose pool synced a document
C12_Witness ==
  /\ pc = "save" /\ Did("pool_drained", TRUE)
  /\ \E t \in Tokens : Synced(t)
  /\ \E t \in Tokens : \E i \in DeletesOf(t, "reconcile") :
       oplog[t][i].ok /\ t \notin DOMAIN sync_records

\* C14: past the pool, successful + failed + skipped is the number of docx
\* descriptors of the walk and successful + failed is the number of documents
\* classified as needing sync; the report carries these counts, and its
\* api_calls_saved equals skipped
C14_Counts ==
  PoolOver =>
    /\ counts.successful + counts.failed + counts.skipped
         = Cardinality({t \in nodes : ObjType(t) = "docx"})
    /\ counts.successful + counts.failed
         = Cardinality({t \in current_doc_tokens : ToSync(t)})
    /\ pc = "returned" =>
         /\ response.body.successful = counts.successful
         /\ response.body.failed = counts.failed
         /\ response.body.skipped = counts.skipped
         /\ response.body.api_calls_saved = response.body.skipped

\* a report with one document failed and one skipped
C14_Witness ==
  /\ pc = "returned" /\ PoolOver
  /\ response.body.failed = 1 /\ response.body.skipped = 1
  /\ response.body.api_calls_saved = 1

-----------------------------------------------------------------------------
(* Properties of generate_oss_path *)

\* r is s with each of the nine characters replaced by '_' and the surrounding
\* whitespace removed
SanitizedAs(s, r) ==
  \E lo \in 1..(Len(s) + 1) : \E hi \in (lo - 1)..Len(s) :
    /\ \A k \in 1..(lo - 1) : s[k] \in {" ", "\t"}
    /\ \A k \in (hi + 1)..Len(s) : s[k] \in {" ", "\t"}
    /\ Len(r) = hi - lo + 1
    /\ \A k \in 1..Len(r) :
         r[k] = IF s[lo + k - 1] \in {"<", ">", ":", "\"", "/", "\\", "|", "?", "*"}
                  THEN "_" ELSE s[lo + k - 1]
    /\ r # <<>> => r[1] \notin {" ", "\t"} /\ r[Len(r)] \notin {" ", "\t"}

\* C13: generate_oss_path returns prefix + sanitize(space name or space id) +
\* '/' + sanitize(title) + '.md', where sanitize replaces each of < > : " / \ | ? *
\* by '_' and trims surrounding whitespace; the sanitized title has none of
\* those characters, and the path is the same for every obj_token and node_token
C13_OssPath ==
  path_call # NotCalled /\ path_call.result # NotCalled =>
    LET node == path_call.node
        root_dir == IF path_call.space # <<>> THEN path_call.space ELSE node.space_id
        path == path_call.result.value
    IN  \E safe_root \in {sanitize_filename(root_dir)} :
        \E safe_title \in {sanitize_filename(node.title)} :
          /\ SanitizedAs(root_dir, safe_root)
          /\ SanitizedAs(node.title, safe_title)
          /\ path = <<"w", "i", "k", "i", "/">> \o safe_root \o <<"/">>
                      \o safe_title \o <<".", "m", "d">>
          /\ \A k \in 1..Len(safe_title) :
               safe_title[k] \notin {"<", ">", ":", "\"", "/", "\\", "|", "?", "*"}
          /\ \A ot \in {"t1", "t2"} : \A nt \in {"n1", "n2"} :
               generate_oss_path([node EXCEPT !.obj_token = ot, !.node_token = nt],
                                 path_call.space) = path

\* the path of the title ' ?' in the space 'Eng' is 'wiki/Eng/_.md'
C13_Witness ==
  /\ path_call # NotCalled /\ path_call.result # NotCalled
  /\ path_call.node.title = <<" ", "?">>
  /\ path_call.space = <<"E", "n", "g">>
  /\ path_call.result.value =
       <<"w", "i", "k", "i", "/", "E", "n", "g", "/", "_", ".", "m", "d">>

-----------------------------------------------------------------------------
(* Properties of _retry_with_backoff *)

AllRateLimited == \A i \in 1..Len(outcomes) : outcomes[i] = "RateLimitError"

\* C7: for max_retries >= 0, an operation that raises a rate-limit error on
\* every attempt is called max_retries + 1 times, and then the rate-limit error
\* of the last attempt is raised; the loop neither returns nor stops earlier
C7_RetryBudget ==
  (job = "retry" /\ max_retries >= 0 /\ AllRateLimited) =>
    /\ retry_at # "returned"
    /\ Len(outcomes) <= max_retries + 1
    /\ retry_at = "call" => attempt = Len(outcomes) /\ attempt <= max_retries
    /\ retry_at = "sleep" => attempt = Len(outcomes) - 1 /\ attempt < max_retries
    /\ retry_at = "raised" =>
         /\ Len(outcomes) = max_retries + 1
         /\ retry_result = [raised |-> "RateLimitError", of |-> max_retries]

\* three rate-limited attempts and the error raised at max_retries = 2
C7_Witness ==
  /\ job = "retry" /\ max_retries = 2 /\ AllRateLimited
  /\ retry_at = "raised" /\ Len(outcomes) = 3

Retryable == {"RateLimitError", "RetryableError"}
LastOutcome == outcomes[Len(outcomes)]

\* C21: whatever the mix of rate-limit and other retryable errors, func is
\* called at most max_retries + 1 times; every call but the last raised a
\* retryable error and was followed by one sleep; a non-retryable error is
\* raised at once and a value returned at once, with no sleep after it; and
\* when the budget is used up the error of the last attempt is raised
C21_SharedBudget ==
  (job = "retry" /\ max_retries >= 0 /\ outcomes # <<>>) =>
    /\ Len(outcomes) <= max_retries + 1
    /\ \A i \in 1..(Len(outcomes) - 1) : outcomes[i] \in Retryable
    /\ Len(sleeps) = IF retry_at \in {"raised", "returned"}
                       THEN Len(outcomes) - 1
                       ELSE Cardinality({i \in 1..Len(outcomes) : outcomes[i] \in Retryable})
    /\ LastOutcome = "return" =>
         /\ retry_at = "returned"
         /\ retry_result = [value |-> "result", of |-> Len(outcomes) - 1]
    /\ LastOutcome = "Exception" =>
         /\ retry_at = "raised"
         /\ retry_result = [raised |-> "Exception", of |-> Len(outcomes) - 1]
    /\ LastOutcome \in Retryable =>
         IF Len(outcomes) = max_retries + 1
           THEN /\ retry_at = "raised"
                /\ retry_result = [raised |-> LastOutcome, of |-> max_retries]
           ELSE retry_at \in {"sleep", "call"} /\ retry_result = NotCalled

\* at max_retries = 2, a rate limit, another retryable error and a rate limit
\* again use up the budget, and the last rate-limit error is raised
C21_Witness ==
  /\ job = "retry" /\ max_retries = 2 /\ retry_at = "raised"
  /\ outcomes = <<"RateLimitError", "RetryableError", "RateLimitError">>
  /\ Len(sleeps) = 2 /\ retry_result.raised = "RateLimitError"

\* what _upload of _retry_upload_file and _get_token of
\* get_tenant_access_token raise when they fail: an error of the storage
\* client, of the HTTP client, or a plain Exception; none is a RetryableError
UploadFailures == {"Exception"}
TokenFetchFailures == {"Exception"}

\* C20, as claimed: an upload (or a token fetch) that fails on every attempt is
\* attempted max_retries + 1 times before its failure is reported
C20_AsClaimed ==
  (/\ job = "retry" /\ max_retries >= 0 /\ retry_at = "raised"
   /\ \A i \in 1..Len(outcomes) : outcomes[i] \in UploadFailures \cup TokenFetchFailures)
    => Len(outcomes) = max_retries + 1

-----------------------------------------------------------------------------
(* Properties of the storage-event handler *)

\* the prefixes and suffixes of file names that are ignored
IgnoredByName(file_name) ==
  \/ file_name \in IGNORED_FILES
  \/ \E x \in IGNORED_PREFIXES : StartsWith(file_name, x)
  \/ \E x \in IGNORED_SUFFIXES : EndsWith(file_name, x)

\* C8: _should_process_file accepts a key iff its base name is not ignored, the
\* key starts with the configured prefix, it does not end in '/', and the
\* extension of the lower-cased key is in the allowlist; with prefix 'wiki/',
\* 'wiki/Eng/.DS_Store', 'other/notes.md' and 'wiki/Eng/archive/' are rejected
\* and 'wiki/Eng/notes.md' is accepted
C8_ShouldProcess ==
  should_process # NotCalled =>
    LET object_key == file_info.object_key
        n == Len(object_key)
    IN  /\ should_process.ok =
             (/\ ~IgnoredByName(LastSegment(object_key))
              /\ StartsWith(object_key, prefix_filter)
              /\ ~(n > 0 /\ object_key[n] = "/")
              /\ SplitExt(Lower(object_key)) \in supported_extensions)
        /\ prefix_filter = <<"w", "i", "k", "i", "/">> =>
             /\ object_key \in {key_ds_store, key_other, key_archive}
                  => ~should_process.ok
             /\ object_key = key_notes => should_process.ok

\* 'wiki/Eng/NOTES.MD' was accepted under the prefix 'wiki/'
C8_Witness ==
  /\ should_process # NotCalled
  /\ file_info.object_key = key_upper
  /\ prefix_filter = <<"w", "i", "k", "i", "/">>
  /\ should_process.ok

\* the branches whose substring event_name contains
Has(sub) == Contains(file_info.event_name, sub)

\* C9: an event name containing ObjectCreated goes to the create handler;
\* otherwise one containing ObjectModified or ObjectOverwrote goes to the
\* update handler; otherwise one containing ObjectRemoved goes to the delete
\* handler; any other name is unsupported: no bucket or index call is made and
\* the response is 200
C9_DispatchOrder ==
  branch # "none" =>
    /\ Has(ObjectCreated) => branch = "create"
    /\ (~Has(ObjectCreated) /\ (Has(ObjectModified) \/ Has(ObjectOverwrote)))
         => branch = "update"
    /\ (~Has(ObjectCreated) /\ ~Has(ObjectModified) /\ ~Has(ObjectOverwrote)
          /\ Has(ObjectRemoved)) => branch = "delete"
    /\ (~Has(ObjectCreated) /\ ~Has(ObjectModified) /\ ~Has(ObjectOverwrote)
          /\ ~Has(ObjectRemoved)) =>
         /\ branch = "unsupported"
         /\ eops = <<>> /\ should_process = NotCalled
         /\ epc \in {"respond", "returned"} /\ result = [action |-> "unsupported"]
         /\ epc = "returned" => response.statusCode = 200
    /\ (result # NotCalled /\ result.action # "skip") =>
         result.action = CASE branch = "create" -> "upload"
                           [] branch = "update" -> "update"
                           [] branch = "delete" -> "delete"
                           [] OTHER -> "unsupported"
    /\ \A i \in 1..Len(eops) :
         /\ eops[i].op = "index_upload" => branch \in {"create", "update"}
         /\ eops[i].op = "download" => branch \in {"create", "update"}
         /\ eops[i].op = "index_delete" => branch \in {"update", "delete"}

\* a name containing both ObjectRemoved and ObjectCreated was handled as a
\* creation: the object was submitted to the index
C9_Witness ==
  /\ epc = "returned" /\ branch = "create"
  /\ Has(ObjectRemoved) /\ Has(ObjectCreated)
  /\ result = [action |-> "upload", status |-> "success"]

\* process_update_event was called for a file _should_process_file accepted
InScopeUpdate == branch = "update" /\ should_process # NotCalled /\ should_process.ok

\* C15: in process_update_event for an in-scope file the download follows the
\* index delete whether that delete succeeded, reported failure or raised, and
\* the submission follows every download within the size cap; the update
\* succeeds exactly when the submission does, and its result then carries the
\* outcome of the delete as delete_success
C15_UpdateKeepsGoing ==
  InScopeUpdate =>
    /\ epc # "delete_old" =>
         /\ Len(eops) >= 1 /\ eops[1].op = "index_delete"
         /\ delete_success = (eops[1].outcome = "success")
    /\ epc \in {"submit", "respond", "returned"} =>
         Len(eops) >= 2 /\ eops[2].op = "download"
    /\ (epc \in {"respond", "returned"} /\ eops[2].ok
          /\ content_size <= 200 * 1024 * 1024) =>
         Len(eops) = 3 /\ eops[3].op = "index_upload"
    /\ epc \in {"respond", "returned"} =>
         /\ result.action = "update"
         /\ result.status = "success" <=> (Len(eops) = 3 /\ eops[3].ok)
         /\ result.status = "success" =>
              result.delete_success = (eops[1].outcome = "success")

\* an update whose index delete raised was submitted and succeeded, with
\* delete_success false in its result
C15_Witness ==
  /\ InScopeUpdate /\ epc = "returned"
  /\ eops[1].outcome = "raised"
  /\ result = [action |-> "update", status |-> "success", delete_success |-> FALSE]
  /\ response.statusCode = 200

\* the download of this invocation raised, or its index submission did
TransportFailed ==
  \E i \in 1..Len(eops) :
    eops[i].op \in {"download", "index_upload"} /\ ~eops[i].ok

\* C16, as claimed: a skip and a delete that found nothing end with statusCode
\* 200, and an invocation whose storage download or index submission raised
\* ends with statusCode 500
C16_AsClaimed ==
  (job = "event" /\ epc = "returned" /\ result # NotCalled) =>
    /\ result.action \in {"skip", "delete"} => response.statusCode = 200
    /\ TransportFailed => response.statusCode = 500

\* the content of this invocation was downloaded
Downloaded == \E i \in 1..Len(eops) : eops[i].op = "download" /\ eops[i].ok
\* an ingestion job was submitted to the index, whatever the answer
Submitted == \E i \in 1..Len(eops) : eops[i].op = "index_upload"

\* C17: in the create and update handlers, downloaded content longer than
\* 200 * 1024 * 1024 bytes is not submitted to the index and the outcome is a
\* failure; content of exactly that many bytes or fewer is submitted
C17_SizeCap ==
  /\ Submitted => Downloaded /\ content_size <= 209715200
  /\ (Downloaded /\ content_size > 209715200) =>
       /\ ~Submitted /\ epc \in {"respond", "returned"}
       /\ result.status = "failed"
       /\ result.action = IF branch = "create" THEN "upload" ELSE "update"
  /\ (Downloaded /\ content_size <= 209715200) =>
       /\ branch \in {"create", "update"}
       /\ epc = "submit" \/ Submitted

\* content of exactly 200 * 1024 * 1024 bytes was submitted by an update
C17_Witness ==
  /\ epc = "returned" /\ branch = "update"
  /\ Downloaded /\ content_size = 209715200
  /\ \E i \in 1..Len(eops) : eops[i].op = "index_upload" /\ eops[i].ok
  /\ result.status = "success"

\* the reasons _should_process_file gives for a rejection
RejectionReasons == {"ignored", "prefix", "directory", "no_extension", "unsupported_type"}
\* the filter of this invocation rejected the object key
Rejected == job = "event" /\ should_process # NotCalled /\ ~should_process.ok

\* C22: when the filter rejects the key of a notification routed to create,
\* update or delete, no storage download, index upload or index delete is
\* issued, the outcome has action 'skip' and the reason of the rejection, and
\* the invocation ends with statusCode 200
C22_SkipIsNoOp ==
  Rejected =>
    /\ branch \in {"create", "update", "delete"}
    /\ eops = <<>> /\ index \in IndexBefore(event)
    /\ epc \in {"respond", "returned"}
    /\ result.action = "skip"
    /\ result.reason = should_process.reason /\ result.reason \in RejectionReasons
    /\ ~escaped
    /\ epc = "returned" =>
         /\ response.statusCode = 200 /\ response.body.success
         /\ response.body.result = result

\* an update of a file outside the prefix filter ended as a skip
C22_Witness ==
  /\ Rejected /\ branch = "update" /\ epc = "returned"
  /\ result.action = "skip" /\ result.reason = "prefix"
  /\ response.statusCode = 200

\* C27: when the notification has no event record, no process_*_event call is
\* made and no storage download, index upload or index delete is issued, and
\* the invocation ends with statusCode 500 and success false
C27_NoEventRecord ==
  (job = "event" /\ event.kind = "no_events") =>
    /\ epc \in {"start", "extract", "returned"}
    /\ file_info = NotCalled /\ branch = "none"
    /\ should_process = NotCalled /\ result = NotCalled
    /\ eops = <<>> /\ index \in IndexBefore(event)
    /\ epc = "returned" =>
         /\ escaped
         /\ response.statusCode = 500 /\ ~response.body.success

\* a configured processor was handed a notification without records, and the
\* invocation has ended
C27_Witness ==
  /\ job = "event" /\ event.kind = "no_events" /\ adb_config_ok
  /\ epc = "returned" /\ response.statusCode = 500

\* this invocation was routed to process_delete_event and passed its filter
InScopeDelete ==
  job = "event" /\ branch = "delete" /\ should_process # NotCalled /\ should_process.ok

\* C28: an in-scope notification routed to the delete handler issues exactly
\* one index delete, for the base name of the file, and neither a storage
\* download nor an index upload; the outcome has action 'delete' and status
\* 'success' iff the index delete reported success; the invocation ends with
\* statusCode 200 either way
C28_DeleteHandler ==
  InScopeDelete =>
    /\ epc \in {"delete", "respond", "returned"}
    /\ epc = "delete" => eops = <<>> /\ result = NotCalled
    /\ epc \in {"respond", "returned"} =>
         /\ Len(eops) = 1 /\ eops[1].op = "index_delete"
         /\ eops[1].file_name = LastSegment(Unquote(event.key))
         /\ result.action = "delete"
         /\ result.status \in {"success", "failed"}
         /\ result.status = "success" <=> eops[1].outcome = "success"
         /\ eops[1].outcome = "success" => eops[1].file_name \notin DOMAIN index
    /\ ~escaped
    /\ epc = "returned" =>
         /\ response.statusCode = 200 /\ response.body.success
         /\ response.body.result = result

\* a delete whose index call raised ended with statusCode 200 and status failed
C28_Witness ==
  /\ InScopeDelete /\ epc = "returned"
  /\ eops[1].outcome = "raised" /\ result.status = "failed"
  /\ response.statusCode = 200

-----------------------------------------------------------------------------
(* Properties of both handlers *)

Returned == (job = "sync" /\ pc = "returned") \/ (job = "event" /\ epc = "returned")

\* an invocation of a handler is under way or over
Invoked == (job = "sync" /\ pc # "idle") \/ job = "event"

\* C10: every invocation of either handler ends by returning a response whose
\* statusCode is 200 or 500, and it is 500 exactly when an exception reached
\* the handler's except clause
C10_StatusCodes ==
  /\ [](/\ Returned => response # NoResponse
        /\ escaped => Returned
        /\ response # NoResponse =>
             /\ Returned
             /\ response.statusCode \in {200, 500}
             /\ response.statusCode = 500 <=> escaped)
  /\ (Invoked ~> Returned)

\* a notification without events ended in the except clause
C10_Witness ==
  /\ job = "event" /\ epc = "returned" /\ event.kind = "no_events"
  /\ escaped /\ response.statusCode = 500


\* C18: when a required credential or identifier is missing, the invocation
\* raises while the syncer (or the index client) is constructed and returns
\* statusCode 500; it has called neither the wiki API nor the index, and has
\* written or deleted nothing in the bucket
C18_MissingConfig ==
  /\ (job = "sync" /\ ~config_ok) =>
       /\ pc \in {"idle", "returned"}
       /\ \A i \in 1..Len(trace) : trace[i].step = "load"
       /\ oplog = NoOps /\ nodes = {}
       /\ storage = {} /\ persisted = EmptyLedger
       /\ pc = "returned" => escaped /\ response.statusCode = 500
  /\ (job = "event" /\ ~adb_config_ok) =>
       /\ epc \in {"start", "returned"}
       /\ eops = <<>> /\ file_info = NotCalled /\ result = NotCalled
       /\ epc = "returned" => escaped /\ response.statusCode = 500

\* a sync invocation without its credentials has ended, in a space that has
\* documents to copy
C18_Witness ==
  /\ job = "sync" /\ ~config_ok /\ pc = "returned"
  /\ \E t \in Tokens : upstream[t] # Absent
  /\ response.statusCode = 500


\* the complete ledger record of t as this run sees t
CompleteRecord(t) ==
  [obj_token |-> t, title |-> NodeOf(t).title,
   oss_path |-> OssPath(NodeOf(t).title),
   obj_edit_time |-> NodeOf(t).obj_edit_time, obj_type |-> NodeOf(t).obj_type]

\* C19: sync_single_document writes the ledger entry of a document as its last
\* step, after its content was fetched and its upload succeeded, and writes it
\* as one complete record; a document whose sync has not reached that step, or
\* failed before it, has the entry (present or absent) it had when the ledger
\* was loaded
C19_LedgerWrittenLast ==
  InRun =>
    \A t \in current_doc_tokens :
      /\ Synced(t) =>
           /\ \E i \in OpsOf(t, "fetch") : \E j \in OpsOf(t, "put") :
                /\ i < j /\ j < Len(oplog[t])
                /\ oplog[t][i].outcome = "content" /\ oplog[t][j].ok
           /\ Cardinality(OpsOf(t, "record")) = 1
           /\ t \in DOMAIN sync_records /\ sync_records[t] = CompleteRecord(t)
      /\ ~Synced(t) =>
           /\ OpsOf(t, "record") = {}
           /\ t \in DOMAIN sync_records <=> t \in DOMAIN Loaded
           /\ t \in DOMAIN Loaded => sync_records[t] = Loaded[t]

\* the upload of a changed document failed after its content was fetched, and
\* its ledger entry is still the one loaded, which is out of date
C19_Witness ==
  /\ InRun
  /\ \E t \in current_doc_tokens :
       /\ t \in DOMAIN Loaded /\ sync_records[t] = Loaded[t]
       /\ sync_records[t] # CompleteRecord(t)
       /\ \E i \in OpsOf(t, "fetch") : oplog[t][i].outcome = "content"
       /\ \E j \in OpsOf(t, "put") : ~oplog[t][j].ok


\* the ledger loaded for this run has another title for t than t's descriptor
Renamed(t) == t \in DOMAIN Loaded /\ Loaded[t].title # upstream[t].title
\* this step appended the rename delete of t to the calls issued for t
RenameDeleteStep(t) ==
  /\ Len(oplog'[t]) = Len(oplog[t]) + 1
  /\ oplog'[t][Len(oplog'[t])].op = "delete"
  /\ oplog'[t][Len(oplog'[t])].why = "rename"
\* this step appended a successful upload of t
UploadStep(t) ==
  /\ Len(oplog'[t]) = Len(oplog[t]) + 1
  /\ oplog'[t][Len(oplog'[t])].op = "put" /\ oplog'[t][Len(oplog'[t])].ok
\* a document other than t had a delete issued at path in this run
DeletedByOther(t, path) ==
  \E u \in Tokens \ {t} : \E i \in OpsOf(u, "delete") : oplog[u][i].path = path

FetchFailed(t) == \E i \in OpsOf(t, "fetch") : oplog[t][i].outcome \in {"empty", "error"}

\* C26: a document whose content fetch returned nothing or failed has no other
\* call issued for it after the fetch (no storage write, no storage delete, also
\* when it was renamed), its worker is over, its ledger entry is the one loaded,
\* and it is counted in failed; the run goes on and returns its report
C26_FetchFailureIsSoft ==
  /\ (pc \in {"pool", "reconcile", "save"}) =>
       \A t \in current_doc_tokens :
         FetchFailed(t) =>
           /\ oplog[t][Len(oplog[t])].op = "fetch"
           /\ OpsOf(t, "put") = {} /\ OpsOf(t, "delete") = {} /\ OpsOf(t, "record") = {}
           /\ t \notin DOMAIN running
           /\ t \in DOMAIN sync_records <=> t \in DOMAIN Loaded
           /\ t \in DOMAIN Loaded => sync_records[t] = Loaded[t]
           /\ ~escaped
  /\ (pc \in {"pool", "reconcile", "save", "returned"} /\ Did("classify", TRUE)) =>
       LET failed_fetch == {t \in current_doc_tokens : FetchFailed(t)}
       IN  /\ counts.failed >= Cardinality(failed_fetch)
           /\ (pc = "returned" /\ failed_fetch # {}) =>
                /\ response.statusCode = 200 /\ response.body.code = 0
                /\ response.body.failed >= Cardinality(failed_fetch)
                /\ \A t \in failed_fetch : OpsOf(t, "put") = {} /\ OpsOf(t, "delete") = {}

\* the fetch of a renamed document returned nothing; the run returned its
\* report with one failure, and the ledger entry still has the old title
C26_Witness ==
  /\ pc = "returned" /\ Did("classify", TRUE)
  /\ \E t \in current_doc_tokens :
       /\ FetchFailed(t)
       /\ t \in DOMAIN sync_records /\ sync_records[t].title # upstream[t].title
  /\ response.body.code = 0 /\ response.body.failed = 1


\* the positions of step in the trace of this invocation
StepsOf(step) == {i \in 1..Len(trace) : trace[i].step = step}

\* C29: an invocation reads the ledger once, as its first step and so before
\* the classification; it writes the ledger at most once, as the last step of
\* the run, after the pool (when one was started) has drained and
\* reconciliation has finished; and the ledger object changes in no other step
C29_LedgerReadWriteOnce ==
  /\ []((job = "sync" /\ pc # "idle") =>
          /\ StepsOf("load") = {1}
          /\ \A i \in StepsOf("classify") : i > 1
          /\ Cardinality(StepsOf("save")) <= 1
          /\ \A i \in StepsOf("save") :
               /\ i = Len(trace) /\ pc = "returned"
               /\ \E k \in StepsOf("reconcile") :
                    /\ k < i
                    /\ \A j \in StepsOf("pool_drained") : j < k
               /\ (\E t \in Tokens : Attempted(t)) => Did("pool_drained", TRUE)
               /\ queue = <<>> /\ DOMAIN running = {})
  /\ [][persisted' # persisted =>
          /\ pc = "save" /\ pc' = "returned"
          /\ queue = <<>> /\ DOMAIN running = {}
          /\ Did("reconcile", TRUE)
          /\ persisted' = sync_records]_vars

\* a second invocation loaded the ledger the first one saved, and saved its own
C29_Witness ==
  /\ job = "sync" /\ runs = 2 /\ pc = "returned"
  /\ Did("load", TRUE) /\ Did("save", TRUE)
  /\ persisted = sync_records /\ persisted # EmptyLedger
  /\ \E t \in Tokens : Synced(t)


-----------------------------------------------------------------------------
(* Properties of get_wiki_nodes and of the pool fed with its output *)

\* the outermost call of get_wiki_nodes returned its list
WalkReturned == job = "walk" /\ wreturn # NotCalled /\ wat # "raised"
\* how often n is in the list
Occurrences(ns, n) == Cardinality({i \in 1..Len(ns) : ns[i] = n})
\* the parents above n, up to the root of the space
RECURSIVE ParentChain(_)
ParentChain(n) == IF ParentOf(n) = "root" THEN {"root"}
                  ELSE {ParentOf(n)} \cup ParentChain(ParentOf(n))
\* every parent above n has has_child set
Listable(n) == ParentChain(n) \ {"root"} \subseteq wiki.has_child

\* C23: a listing that fails below the root does not fail the walk, which
\* raises only when a request of the root listing itself raised; the list
\* returned holds, once each, every node above which no listing failed: the
\* child whose listing failed, its siblings on every page, and the whole
\* subtree of every other child
C23_PartialTree ==
  /\ (job = "walk" /\ wat = "raised") =>
       /\ "root" \in wfailed
       /\ wrequests[Len(wrequests)].parent = "root"
       /\ wrequests[Len(wrequests)].outcome \in {"rate_limit", "exception"}
  /\ WalkReturned =>
       \A n \in NodeTokens :
         /\ Occurrences(wreturn.nodes, n) <= 1
         /\ (Listable(n) /\ ParentChain(n) \cap wfailed = {}) =>
              Occurrences(wreturn.nodes, n) = 1

\* the listing of n1 raised: the walk returned n1, its siblings n2 and n3 of
\* both pages and the child n6 of n3, without n5
C23_Witness ==
  /\ WalkReturned /\ wfailed = {"n1"}
  /\ \E i \in 1..Len(wrequests) :
       wrequests[i].parent = "n1" /\ wrequests[i].outcome = "exception"
  /\ \A n \in {"n1", "n2", "n3", "n6"} : Occurrences(wreturn.nodes, n) = 1
  /\ Occurrences(wreturn.nodes, "n5") = 0

\* every listing request so far succeeded
AllOk == \A i \in 1..Len(wrequests) : wrequests[i].outcome = "ok"
\* the nodes of a sequence of pages, in order
RECURSIVE Flatten(_)
Flatten(pages) == IF pages = <<>> THEN <<>> ELSE Head(pages) \o Flatten(Tail(pages))
\* the nodes reachable under p through has_child, parents before children
RECURSIVE Preorder(_, _)
Preorder(p, flagged) ==
  LET items == Flatten(ListingPages(p))
      F[i \in 0..Len(items)] ==
        IF i = 0 THEN <<>>
        ELSE F[i - 1] \o <<items[i]>>
               \o (IF items[i] \in flagged THEN Preorder(items[i], flagged) ELSE <<>>)
  IN  F[Len(items)]
\* the page tokens sent in the requests for the listing of p, in order
RECURSIVE TokensSent(_, _)
TokensSent(reqs, p) ==
  IF reqs = <<>> THEN <<>>
  ELSE (IF Head(reqs).parent = p THEN <<Head(reqs).page_token>> ELSE <<>>)
         \o TokensSent(Tail(reqs), p)

\* C24: when every listing request succeeds, get_wiki_nodes returns, and what
\* it returns is every node reachable through has_child, once each; every page
\* of the root and of every reachable parent with has_child was requested, the
\* first without a page token and each later one with the token the page
\* before it returned; no other listing was requested
C24_CompleteWalk ==
  /\ []((WalkReturned /\ AllOk) =>
          LET reached == Preorder("root", wiki.has_child)
              parents == {"root"} \cup {n \in NodeTokens :
                                          n \in wiki.has_child /\ Occurrences(reached, n) = 1}
          IN  /\ wreturn.nodes = reached
              /\ \A n \in NodeTokens : Occurrences(wreturn.nodes, n) =
                                         IF Listable(n) THEN 1 ELSE 0
              /\ \A i \in 1..Len(wrequests) : wrequests[i].parent \in parents
              /\ \A q \in parents :
                   LET sent == TokensSent(wrequests, q)
                   IN  /\ Len(sent) = Len(ListingPages(q))
                       /\ sent[1] = NoPageToken
                       /\ \A k \in 2..Len(sent) :
                            sent[k] = ListingResponse(q, sent[k - 1]).page_token)
  /\ <>(job = "walk" /\ (~AllOk \/ WalkReturned))

\* six requests, all answered, returned the six nodes of the space in which
\* n1, n3 and n5 have has_child set
C24_Witness ==
  /\ WalkReturned /\ AllOk
  /\ wiki.has_child = {"n1", "n3", "n5"}
  /\ wreturn.nodes = <<"n1", "n4", "n5", "n2", "n3", "n6">>
  /\ Len(wrequests) = 6

\* C30, as claimed: the nodes handed to the pool have pairwise distinct
\* obj_tokens, and so have the nodes whose sync is in progress at one time
C30_AsClaimed ==
  (job = "walk" /\ wat = "pool") =>
    /\ \A i, j \in 1..Len(wqueue) :
         i # j => wiki.obj_token[wqueue[i]] # wiki.obj_token[wqueue[j]]
    /\ \A n, m \in wrunning : n # m => wiki.obj_token[n] # wiki.obj_token[m]

-----------------------------------------------------------------------------
(* The ledger object and the index; what an update and a delete leave indexed *)

\* the base name under which _save_sync_records writes the ledger
sync_records_json ==
  <<"s", "y", "n", "c", "_", "r", "e", "c", "o", "r", "d", "s", ".", "j", "s", "o", "n">>

\* the notification is for an object whose base name is that of the ledger
ForLedger ==
  /\ job = "event" /\ event.kind = "record"
  /\ LastSegment(Unquote(event.key)) = sync_records_json

\* C36: a notification whose object key has the base name sync_records.json
\* causes no index upload, no index delete and no download, for every event
\* name and every prefix filter, and leaves the index as it was; when it is
\* routed to a process function the outcome is a skip with reason 'ignored'
C36_LedgerNeverIndexed ==
  ForLedger =>
    /\ eops = <<>>
    /\ index \in IndexBefore(event)
    /\ should_process # NotCalled =>
         should_process = [ok |-> FALSE, reason |-> "ignored"]
    /\ (epc = "returned" /\ branch \in {"create", "update", "delete"}) =>
         /\ result = [action |-> "skip", reason |-> "ignored"]
         /\ response.statusCode = 200

\* an overwrite notification for the ledger under the prefix the filter admits,
\* with the ledger's base name indexed beforehand, ended as a skip
C36_Witness ==
  /\ ForLedger /\ epc = "returned" /\ branch = "update"
  /\ StartsWith(Unquote(event.key), prefix_filter)
  /\ index = sync_records_json :> key_ledger
  /\ result = [action |-> "skip", reason |-> "ignored"]

\* C34, as claimed: at the end of process_update_event for an in-scope file
\* that was indexed before the event, the file is still indexed, whichever of
\* the download, the size check and the submission failed
C34_AsClaimed ==
  (InScopeUpdate /\ epc = "returned" /\ eops[1].held # NoEntry) =>
    file_info.file_name \in DOMAIN index

\* C35, as claimed: an index delete issued for the notified object key removes
\* only an entry that was created from that key, never the entry that a
\* different in-scope key with the same base name left in the index
C35_AsClaimed ==
  \A i \in 1..Len(eops) :
    (/\ eops[i].op = "index_delete" /\ eops[i].ok
     /\ eops[i].held # NoEntry
     /\ should_process_file(eops[i].held, prefix_filter).ok) =>
      eops[i].held = file_info.object_key

-----------------------------------------------------------------------------
(* The empty walk, the report of a run and what the reconciler removes *)

\* C37: sync_wiki_space goes past the walk only with at least one node; when
\* the walk returns no node it returns code 1 with statusCode 200, and up to
\* that return nothing was fetched, uploaded or deleted, the in-memory ledger is
\* the one that was loaded, and the persisted ledger was not written
C37_EmptyWalk ==
  /\ (job = "sync" /\ InRun) => nodes # {}
  /\ (job = "sync" /\ pc = "returned" /\ response.body.code = 1) =>
       /\ nodes = {}
       /\ response = [statusCode |-> 200, body |-> [code |-> 1]]
       /\ oplog = NoOps /\ queue = <<>> /\ running = EmptyLedger
       /\ counts = NoCounts
       /\ Len(trace) = 1 /\ trace[1].step = "load"
       /\ sync_records = Loaded
       /\ ~escaped

\* an empty walk returned code 1 while the ledger held the entry of a document
\* that no longer exists upstream, whose storage object is still there
C37_Witness ==
  /\ job = "sync" /\ pc = "returned" /\ response.body.code = 1
  /\ \E t \in DOMAIN sync_records :
       /\ upstream[t] = Absent
       /\ sync_records[t].oss_path \in storage
       /\ t \in DOMAIN persisted

\* C38, as claimed: when sync_wiki_space returns a report with code 0, the
\* ledger persisted in storage is the in-memory ledger as reconciliation left
\* it, and sync_records_count is the number of entries of the persisted ledger
C38_AsClaimed ==
  (job = "sync" /\ pc = "returned" /\ response.body.code = 0) =>
    /\ persisted = sync_records
    /\ response.body.sync_records_count = Cardinality(DOMAIN persisted)

\* C33, as claimed: handle_deleted_documents issues a storage delete and removes
\* the ledger entry only for documents that no longer exist upstream, also in a
\* run whose walk returned a partial tree
C33_AsClaimed ==
  (job = "sync" /\ pc = "save") =>
    \A t \in Tokens :
      upstream[t] # Absent =>
        /\ DeletesOf(t, "reconcile") = {}
        /\ t \in DOMAIN Loaded => t \in DOMAIN sync_records

\* C32, as claimed: at the end of every run that returns its report, the
\* oss_path of every ledger entry names an object that is in storage
C32_AsClaimed ==
  (job = "sync" /\ pc = "returned" /\ response.body.code = 0) =>
    \A t \in DOMAIN sync_records : sync_records[t].oss_path \in storage

-----------------------------------------------------------------------------
(* A crash before the ledger is saved, and the run after it *)

\* the storage calls sync_single_document issues for t on ledger records when
\* none fails: nothing for an unchanged document, the delete of the recorded
\* path before the upload for a renamed one
DocumentCalls(t, records, up) ==
  IF ObjType(t) # "docx" \/ up[t] = Absent THEN <<>>
  ELSE IF ~need_update(WikiNode(t, up[t]), records) THEN <<>>
  ELSE IF t \in DOMAIN records /\ records[t].title # up[t].title
    THEN << [op |-> "delete", path |-> records[t].oss_path],
            [op |-> "put", path |-> OssPath(up[t].title)] >>
  ELSE << [op |-> "put", path |-> OssPath(up[t].title)] >>

\* the orders in which the calls of two workers can reach storage
RECURSIVE Interleavings(_, _)
Interleavings(a, b) ==
  IF a = <<>> THEN {b}
  ELSE IF b = <<>> THEN {a}
  ELSE {<<Head(a)>> \o w : w \in Interleavings(Tail(a), b)}
         \cup {<<Head(b)>> \o w : w \in Interleavings(a, Tail(b))}

\* storage after the calls of w, in order
RECURSIVE StorageAfter(_, _)
StorageAfter(store, w) ==
  IF w = <<>> THEN store
  ELSE StorageAfter(IF Head(w).op = "put" THEN store \cup {Head(w).path}
                    ELSE store \ {Head(w).path}, Tail(w))

\* the sets of storage objects a run without crash and without failure can end
\* with, started on ledger records with the object of every entry in storage:
\* the pool's calls for the two docx documents in one of their orders, then the
\* deletes of the reconciler
NoCrashStorages(records, up) ==
  LET before == {records[t].oss_path : t \in DOMAIN records}
      stale == {records[t].oss_path : t \in {u \in DOMAIN records : up[u] = Absent}}
  IN  {StorageAfter(before, w) \ stale :
         w \in Interleavings(DocumentCalls("t1", records, up),
                             DocumentCalls("t2", records, up))}

\* the invocation before this one died, and the space is as it was then
AfterCrash == last # NoRun /\ "crashed" \in DOMAIN last /\ ~last.changed

\* C31: the complete run that follows a run which died after uploads or
\* deletes and before the ledger was saved, with no upstream change in between,
\* syncs again every document the dead run had uploaded, deletes again every
\* object its reconciler had deleted, and ends with the persisted ledger and
\* with a set of storage objects that a run which had not died ends with
\* (sync timestamps left out); a first run that does not die ends so as well
C31_CrashRecovery ==
  /\ (job = "sync" /\ pc = "returned" /\ response.body.code = 0 /\ AfterCrash) =>
       /\ \A t \in last.uploaded : Synced(t)
       /\ \A t \in last.reconciled :
            /\ \E i \in DeletesOf(t, "reconcile") : oplog[t][i].ok
            /\ t \notin DOMAIN persisted
       /\ persisted = LedgerOf(upstream)
       /\ storage \in NoCrashStorages(last.ledger, upstream)
  /\ (job = "sync" /\ pc = "save" /\ last = NoRun) =>
       /\ sync_records = LedgerOf(upstream)
       /\ storage \in NoCrashStorages(persisted, upstream)

\* the run after a crash ended; the dead run had uploaded one document, deleted
\* the old object of a renamed one and the object of a deleted one
C31_Witness ==
  /\ job = "sync" /\ pc = "returned" /\ response.body.code = 0 /\ AfterCrash
  /\ last.uploaded # {} /\ last.reconciled # {}
  /\ Cardinality(last.touched) >= 2
  /\ \E t \in last.uploaded \cap DOMAIN last.ledger :
       last.ledger[t].oss_path # OssPath(upstream[t].title)

=============================================================================
